---- MODULE Spec2Model ----
(***************************************************************************)
(* State-machine model of the PowerPoint selection add-in (taskpane        *)
(* script, src/unnamed/part_001): the debounced selection-changed trigger, *)
(* the buttons, and one detection pass made of three channels that run     *)
(* against the host and are joined by Promise.all before the formatter     *)
(* writes the display.                                                     *)
(*                                                                         *)
(* A step of the model is one task of the page's event loop: an event      *)
(* handler, a timer callback, or the continuation of a channel after the   *)
(* host answered the round-trip (context.sync / getSelectedDataAsync) it   *)
(* was suspended on, run up to its next suspension point.  The host's      *)
(* answer to every round-trip is either a failure (rejected sync, Failed   *)
(* status) or the data of the host state.                                  *)
(***************************************************************************)
EXTENDS Integers, Sequences, FiniteSets, TLC

VARIABLES
    host,                   \* the host document: selected slides, shapes of the first slide, text selection
    lastSelectedText,       \* part_001:9
    selectionChangeTimeout, \* part_001:10, the id returned by setTimeout, 0 for null
    lastMousePosition,      \* part_001:11
    lastClickedPosition,    \* part_001:12
    hasMousePositionData,   \* part_001:13
    timers,                 \* the browser's armed timers: records [id, due]
    now,                    \* the clock, in ms
    pendingCapture,         \* outstanding getSelectedDataAsync(SlideRange) callbacks of the tracking handler
    display,                \* textContent of the 'item-subject' node, as a sequence of lines
    passes,                 \* the detection passes: selectionInfo, the three channels' positions and locals
    evCount,                \* history: selection-changed events so far
    lastEventTime,          \* history: time of the last selection-changed event (-1: none)
    burst,                  \* history: every event so far came less than Debounce after the one before
    fireCount,              \* history: passes started by the debounce timer
    lastFireTime,           \* history: when the debounce timer last started a pass (-1: never)
    pointer,                \* the environment: where the user's pointer is
    capturedAt,             \* history: where the pointer was at the last capture
    search,                 \* part_002, getSelectedShapeDetails(selectedText): the scan of the shapes' text
    older                   \* part_002, detectSelectedElement: the pass of the older variant

vars == <<host, lastSelectedText, selectionChangeTimeout, lastMousePosition,
          lastClickedPosition, hasMousePositionData, timers, now, pendingCapture,
          display, passes, evCount, lastEventTime, burst, fireCount, lastFireTime,
          pointer, capturedAt, search, older>>

----------------------------------------------------------------------------
(* Bounds of the model *)

\* shapes on the slide of a generated host
MaxShapes == 2
\* passes that may be in flight at once (the code sets no limit)
MaxPasses == 2
\* selection-changed events of a behaviour
MaxEvents == 3
\* clock ticks of a behaviour, each of TickMs milliseconds
MaxTicks == 8
TickMs == 100
\* shapes on the slide the text search scans
MaxSearchShapes == 2
\* characters of a shape's text and of the selected text
MaxTextLen == 2

(* Program constants *)

\* the debounce delay handed to setTimeout
Debounce == 300

\* JavaScript's null (selectionInfo.text, selectionInfo.detectionMethod)
Null == "<null>"

----------------------------------------------------------------------------
(* The host document *)

ShapeTypes == {"Picture", "GeometricShape"}

\* The i-th shape of a slide's collection.  The collection is in stacking
\* order, bottom first; a shape that carries a timestamp was modified after
\* the ones before it.  lastModified = 0 stands for no timestamp.
HostShape(i, ty, sel, hasMod, lft) ==
    [id |-> i, type |-> ty, isSelected |-> sel,
     lastModified |-> IF hasMod THEN i ELSE 0,
     left |-> lft, top |-> 0, width |-> 10, height |-> 10, zIndex |-> i]

ShapeChoices(i) ==
    { HostShape(i, ty, sel, hasMod, lft) :
        ty \in ShapeTypes, sel \in BOOLEAN, hasMod \in BOOLEAN, lft \in {0, 20} }

RECURSIVE ShapeSeqs(_)
ShapeSeqs(n) ==
    IF n = 0 THEN { <<>> }
    ELSE { Append(s, c) : s \in ShapeSeqs(n - 1), c \in ShapeChoices(n) }

SlideContents == UNION { ShapeSeqs(n) : n \in 0..MaxShapes }

HostTexts == {"", "hello"}

\* slides: the number of selected slides; shapes: the shapes of the first one
Hosts ==
    { [slides |-> 1, shapes |-> sh, text |-> t] : sh \in SlideContents, t \in HostTexts }
    \cup { [slides |-> 0, shapes |-> <<>>, text |-> t] : t \in HostTexts }

\* the hosts with no slide selected
HostsNoSlide == { h \in Hosts : h.slides = 0 }

----------------------------------------------------------------------------
(* Pure helpers *)

RECURSIVE InsertDesc(_, _, _)
\* insert x into the sequence s, sorted by descending s[i][key], after the
\* elements that compare equal (Array.prototype.sort is stable)
InsertDesc(s, x, key) ==
    IF s = <<>> THEN <<x>>
    ELSE IF Head(s)[key] >= x[key] THEN <<Head(s)>> \o InsertDesc(Tail(s), x, key)
    ELSE <<x>> \o s

\* mutant of SortDesc: the array is left as it is
SortSkipped(s, key) == s

RECURSIVE SortDesc(_, _)
\* arr.sort((a, b) => b[key] - a[key])
SortDesc(s, key) ==
    IF s = <<>> THEN <<>>
    ELSE InsertDesc(SortDesc(SubSeq(s, 1, Len(s) - 1), key), s[Len(s)], key)

\* the shape as the property lists without lastModified load it
View(s) == [s EXCEPT !.lastModified = 0]

ViewAll(shapes) == [i \in DOMAIN shapes |-> View(shapes[i])]

\* shapes[i].load("lastModified") and the sync after it: the proxies of the
\* slide's shapes now carry the host's timestamps
WithModified(shapes, hostShapes) ==
    [i \in DOMAIN shapes |->
        IF i \in DOMAIN hostShapes
        THEN [shapes[i] EXCEPT !.lastModified = hostShapes[i].lastModified]
        ELSE shapes[i]]

\* mutant of ContainsPoint: a point on the border is outside
ContainsPointStrict(pos, s) ==
    /\ pos.x > s.left
    /\ pos.x < s.left + s.width
    /\ pos.y > s.top
    /\ pos.y < s.top + s.height

\* the bounds test of approach 5 and of the picture channel
ContainsPoint(pos, s) ==
    /\ pos.x >= s.left
    /\ pos.x <= s.left + s.width
    /\ pos.y >= s.top
    /\ pos.y <= s.top + s.height

\* mutant of SelectedOf: the filter keeps every shape
NotFiltered(shapes) == shapes

\* shapes.filter(shape => shape.isSelected)
SelectedOf(shapes) == SelectSeq(shapes, LAMBDA s : s.isSelected)

\* mutant of PicturesOf: shapes of every kind are kept
AnyKind(shapes) == shapes

\* shapes.filter(shape => shape.type === "Picture")
PicturesOf(shapes) == SelectSeq(shapes, LAMBDA s : s.type = "Picture")

\* shapes.filter(s => s.lastModified)
ModifiedOf(shapes) == SelectSeq(shapes, LAMBDA s : s.lastModified # 0)

\* mutant of AtPosition: the shapes at the position are left in slide order
AtPositionUnsorted(shapes, pos) == SelectSeq(shapes, LAMBDA s : ContainsPoint(pos, s))

\* the shapes whose bounds hold the last clicked position, top-most first
AtPosition(shapes, pos) ==
    SortDesc(SelectSeq(shapes, LAMBDA s : ContainsPoint(pos, s)), "zIndex")

\* What the host may answer to a selection query (presentation.getSelection,
\* the active view's selection): the shapes it holds as selected, or, when the
\* surface exists but reports nothing, no shape.
SelectionAnswers == { <<>>, ViewAll(SelectedOf(host.shapes)) }

----------------------------------------------------------------------------
(* SelectionInfo and the pass *)

\* the object literal of detectSelectedElement; allShapes and allPictures are
\* undefined until set and read through "|| []"
NewSelectionInfo ==
    [text |-> Null, shapes |-> <<>>, pictures |-> <<>>, detectionMethod |-> Null,
     allShapes |-> <<>>, allPictures |-> <<>>]

\* mutant of ClaimTag: the tag is assigned without the guard
ClaimTagUnguarded(info, tag) == [info EXCEPT !.detectionMethod = tag]

\* if (!selectionInfo.detectionMethod) selectionInfo.detectionMethod = tag
ClaimTag(info, tag) ==
    IF info.detectionMethod = Null THEN [info EXCEPT !.detectionMethod = tag] ELSE info

\* mutant of TextFound: the tag is assigned only if no channel has set it
TextFoundGuarded(info, selectedText) ==
    ClaimTag([info EXCEPT !.text = selectedText], "text")

\* the assignments of detectSelectionText for a non-empty text
TextFound(info, selectedText) ==
    [info EXCEPT !.text = selectedText, !.detectionMethod = "text"]

\* A pass: status free | running | displayed, the SelectionInfo, the position
\* of each channel (the round-trip it is suspended on), the locals that live
\* across suspension points, and the history of the shape cascade:
\*   attempted  the strategies begun, in the order they were begun
\*   failed     the strategies with a failed round-trip (0: the fetch of the
\*              selected slides)
\*   wrote      the strategies that assigned selectionInfo.shapes
\*   tags       the successive values assigned to selectionInfo.detectionMethod
FreePass ==
    [status |-> "free", info |-> NewSelectionInfo,
     tpc |-> "done", ppc |-> "done", spc |-> "done",
     sel |-> <<>>, shapes |-> <<>>, recent |-> <<>>, pics |-> <<>>,
     attempted |-> <<>>, failed |-> {}, wrote |-> <<>>, tags |-> <<>>]

\* the state of a pass when detectSelectedElement returns: the three channels
\* have issued their first round-trip
NewPass ==
    [FreePass EXCEPT !.status = "running", !.tpc = "wait", !.ppc = "slides",
                     !.spc = "slides"]

\* mutant of AllResolved: the formatter does not wait for the shape cascade
TextAndPicturesResolved(pass) == pass.tpc = "done" /\ pass.ppc = "done"

\* Promise.all([...]) is fulfilled
AllResolved(pass) == pass.tpc = "done" /\ pass.ppc = "done" /\ pass.spc = "done"

InFlight == { p \in 1..MaxPasses : passes[p].status = "running" }

----------------------------------------------------------------------------
(* The formatter.  The display text is kept as the sequence of its lines:  *)
(* a fixed line by its text, a line about an element by the element and    *)
(* the index it is printed with.                                           *)

Line(s) == [line |-> s]

\* getPictureDetailsString(picture, index)
getPictureDetailsString(picture, index) ==
    [line |-> "picture", n |-> index + 1, shape |-> picture]

\* getDetailedShapeInfo(shape, index)
getDetailedShapeInfo(shape, index) ==
    [line |-> "shape", n |-> index + 1, shape |-> shape]

\* the four lines of an element in the all-elements listing
ListedElement(element, index) ==
    [line |-> "element", n |-> index + 1, shape |-> element]

RECURSIVE TypesInOrder(_)
\* the keys of elementsByType, in the order the forEach creates them
TypesInOrder(shapes) ==
    IF shapes = <<>> THEN <<>>
    ELSE LET before == TypesInOrder(SubSeq(shapes, 1, Len(shapes) - 1))
             ty == shapes[Len(shapes)].type
         IN  IF \E i \in 1..Len(before) : before[i] = ty THEN before ELSE Append(before, ty)

\* elementsByType: a sequence of [type, elements], in key order
ElementsByType(allShapes, allPictures) ==
    LET keys == TypesInOrder(allShapes)
        byShape == [k \in 1..Len(keys) |->
                       [type |-> keys[k],
                        elements |-> SelectSeq(allShapes, LAMBDA s : s.type = keys[k])]]
    IN  IF Len(allPictures) > 0 /\ ~ \E k \in 1..Len(keys) : keys[k] = "Picture"
        THEN Append(byShape, [type |-> "Picture", elements |-> allPictures])
        ELSE byShape

\* "== <type> Elements (<n>) ==" and the elements under it
GroupLines(group) ==
    <<[line |-> "== Elements ==", type |-> group.type, count |-> Len(group.elements)]>>
    \o [i \in 1..Len(group.elements) |-> ListedElement(group.elements[i], i - 1)]

RECURSIVE AllGroupLines(_)
AllGroupLines(groups) ==
    IF groups = <<>> THEN <<>>
    ELSE GroupLines(Head(groups)) \o AllGroupLines(Tail(groups))

\* hasSelection of displaySelectionInfo
HasSelection(info) ==
    \/ (info.text # Null /\ info.text # "")
    \/ Len(info.shapes) > 0
    \/ Len(info.pictures) > 0

\* the branch of displaySelectionInfo for !hasSelection
NoSelectionReport(info) ==
    <<Line("No element is currently selected.")>>
    \o IF Len(info.allShapes) > 0 \/ Len(info.allPictures) > 0
       THEN <<[line |-> "All elements on current slide",
               total |-> Len(info.allShapes) + Len(info.allPictures)]>>
            \o AllGroupLines(ElementsByType(info.allShapes, info.allPictures))
            \o <<Line("Tips for selecting elements:")>>
       ELSE <<Line("No elements found on the current slide.")>>

\* mutant of NonPictureShapes: every shape of kind Picture is left out
WithoutPictures(info) == SelectSeq(info.shapes, LAMBDA s : s.type # "Picture")

\* the shapes listed under SELECTED SHAPE(S): those not already shown as pictures
NonPictureShapes(info) ==
    SelectSeq(info.shapes,
              LAMBDA s : \/ s.type # "Picture"
                         \/ ~ \E i \in 1..Len(info.pictures) : info.pictures[i].id = s.id)

\* the branch of displaySelectionInfo for a selection
SelectionReport(info) ==
    LET pics == info.pictures
        rest == NonPictureShapes(info)
    IN  <<Line("=== CURRENT SELECTION INFO ===")>>
        \o (IF info.text # Null /\ info.text # ""
            THEN <<Line("SELECTED TEXT:"), [line |-> "text", text |-> info.text]>>
            ELSE <<>>)
        \o (IF Len(pics) > 0
            THEN <<Line(IF Len(pics) > 1 THEN "SELECTED PICTURES:" ELSE "SELECTED PICTURE:")>>
                 \o [i \in 1..Len(pics) |-> getPictureDetailsString(pics[i], i - 1)]
            ELSE <<>>)
        \o (IF Len(rest) > 0
            THEN <<Line(IF Len(rest) > 1 THEN "SELECTED SHAPES:" ELSE "SELECTED SHAPE:")>>
                 \o [i \in 1..Len(rest) |-> getDetailedShapeInfo(rest[i], i - 1)]
            ELSE <<>>)
        \o (IF info.detectionMethod # Null
            THEN <<[line |-> "Detection method", method |-> info.detectionMethod]>>
            ELSE <<>>)

\* the text displaySelectionInfo(selectionInfo) writes to the display
displaySelectionInfo(info) ==
    IF HasSelection(info) THEN SelectionReport(info) ELSE NoSelectionReport(info)

\* const maxTextLength = 100 of getDetailedShapeInfo
maxTextLength == 100

\* `${index + 1}. ${element.name || fallback} (ID: ${element.id})`
HeaderLine(element, index, fallback) ==
    [line |-> "header", n |-> index + 1,
     name |-> IF element.name # "" THEN element.name ELSE fallback,
     id |-> element.id]

\* the Position, Size and Z-Index lines of an element
GeometryLines(element) ==
    <<[line |-> "Position", left |-> element.left, top |-> element.top],
      [line |-> "Size", width |-> element.width, height |-> element.height],
      [line |-> "Z-Index", zIndex |-> element.zIndex]>>

\* mutant of PictureDetailLines: the alternative text is not printed
PictureDetailLinesNoAltText(picture, index) ==
    <<HeaderLine(picture, index, "Unnamed Picture"), Line("Type: Picture/Image")>>
    \o GeometryLines(picture)

\* The lines of getPictureDetailsString(picture, index).  An absent or empty
\* property is ""; imageFormat is Null when the picture has no imageData.
PictureDetailLines(picture, index) ==
    <<HeaderLine(picture, index, "Unnamed Picture"), Line("Type: Picture/Image")>>
    \o GeometryLines(picture)
    \o (IF picture.altTextDescription # ""
        THEN <<[line |-> "Alt Text", text |-> picture.altTextDescription]>> ELSE <<>>)
    \o (IF picture.altTextTitle # ""
        THEN <<[line |-> "Alt Text Title", text |-> picture.altTextTitle]>> ELSE <<>>)
    \o (IF picture.imageFormat # Null /\ picture.imageFormat # ""
        THEN <<[line |-> "Image Format", text |-> picture.imageFormat]>> ELSE <<>>)

\* the lines the switch of getDetailedShapeInfo adds for the type of the shape
ElementTypeLines(shape) ==
    CASE shape.type = "Picture" ->
             <<Line("Element Type: Image/Picture")>>
             \o (IF shape.imageFormat # Null
                 THEN <<[line |-> "Image Format",
                         text |-> IF shape.imageFormat # "" THEN shape.imageFormat
                                  ELSE "Unknown"]>>
                 ELSE <<>>)
             \o (IF shape.altTextDescription # ""
                 THEN <<[line |-> "Alt Text", text |-> shape.altTextDescription]>> ELSE <<>>)
             \o (IF shape.altTextTitle # ""
                 THEN <<[line |-> "Alt Text Title", text |-> shape.altTextTitle]>> ELSE <<>>)
      [] shape.type = "Group" -> <<Line("Element Type: Group (contains multiple elements)")>>
      [] shape.type = "Table" -> <<Line("Element Type: Table")>>
      [] shape.type = "Chart" -> <<Line("Element Type: Chart")>>
      [] shape.type = "SmartArt" -> <<Line("Element Type: SmartArt")>>
      [] OTHER -> <<>>

\* the lines of getDetailedShapeInfo(shape, index)
ShapeDetailLines(shape, index) ==
    <<HeaderLine(shape, index, "Unnamed"), [line |-> "Type", type |-> shape.type]>>
    \o ElementTypeLines(shape)
    \o GeometryLines(shape)
    \o (IF shape.text # ""
        THEN <<[line |-> "Text",
                text |-> IF Len(shape.text) > maxTextLength
                         THEN SubSeq(shape.text, 1, maxTextLength) \o "..."
                         ELSE shape.text]>>
        ELSE <<>>)

\* the four lines of an element of the all-elements listing
ListedElementLines(element, index) ==
    <<HeaderLine(element, index, "Unnamed")>> \o GeometryLines(element)

RECURSIVE ReportLines(_)
\* the text of a report, line by line: each element of the report is written
\* out by the function that prints it
ReportLines(text) ==
    IF text = <<>> THEN <<>>
    ELSE LET l == Head(text)
         IN  (CASE l.line = "picture" -> PictureDetailLines(l.shape, l.n - 1)
                [] l.line = "shape" -> ShapeDetailLines(l.shape, l.n - 1)
                [] l.line = "element" -> ListedElementLines(l.shape, l.n - 1)
                [] OTHER -> <<l>>)
             \o ReportLines(Tail(text))

\* the placeholder written when a pass starts
Detecting == <<Line("Detecting selected element...")>>

\* the text of the page before the first pass
InitialDisplay == <<>>

\* the lines a failing pass would show: 'Error: ' + message
IsErrorText(text) == \E i \in 1..Len(text) : text[i].line = "Error"

----------------------------------------------------------------------------
(* Steps of a pass *)

Globals == <<host, lastMousePosition, lastClickedPosition, hasMousePositionData,
             pointer, capturedAt, search, older>>
Trigger == <<selectionChangeTimeout, timers, now, pendingCapture,
             evCount, lastEventTime, burst, fireCount, lastFireTime>>

\* A channel of pass p ran up to its next suspension point, or resolved,
\* leaving the pass as np.  When it was the last of the three to resolve, the
\* then-callback of Promise.all runs before any other task and the formatter
\* writes the display.
Commit(p, np) ==
    LET logged == [np EXCEPT !.tags =
                      IF np.info.detectionMethod # passes[p].info.detectionMethod
                      THEN Append(@, np.info.detectionMethod) ELSE @]
    IN  IF AllResolved(logged)
        THEN /\ passes' = [passes EXCEPT ![p] = [logged EXCEPT !.status = "displayed"]]
             /\ display' = displaySelectionInfo(logged.info)
        ELSE /\ passes' = [passes EXCEPT ![p] = logged]
             /\ UNCHANGED display

\* the strategy a round-trip of the shape cascade belongs to
StrategyOf(call) ==
    CASE call = "slides" -> 0
      [] call \in {"a1sel", "a1load"} -> 1
      [] call \in {"a2view", "a2sel", "a2load"} -> 2
      [] call \in {"a3shapes", "a3props"} -> 3
      [] call \in {"a4mod", "a4load"} -> 4

\* strategy k is begun, or goes on
Attempt(pass, k) ==
    [pass EXCEPT !.attempted =
        IF Len(@) > 0 /\ @[Len(@)] = k THEN @ ELSE Append(@, k)]

\* the shape cascade issues the round-trip named call and suspends on it
Issue(pass, call) == [Attempt(pass, StrategyOf(call)) EXCEPT !.spc = call]

\* the round-trip the cascade was suspended on failed
Failed(pass) == [pass EXCEPT !.failed = @ \cup {StrategyOf(pass.spc)}]

\* resolve() of the shape cascade
Resolved(pass) == [pass EXCEPT !.spc = "done"]

\* mutant of Found: the shapes are recorded and no tag is claimed
FoundUntagged(pass, k, result, tag) ==
    [pass EXCEPT !.info.shapes = result, !.wrote = Append(@, k), !.spc = "done"]

\* strategy k found result: selectionInfo.shapes = result, the tag is claimed
\* if still free, resolve(), return
Found(pass, k, result, tag) ==
    [pass EXCEPT !.info = ClaimTag([@ EXCEPT !.shapes = result], tag),
                 !.wrote = Append(@, k),
                 !.spc = "done"]

\* mutant of AfterApproach1: approach 2 is left out
AfterApproach1Skips2(pass) == Issue(pass, "a3shapes")

\* where the cascade goes after approach 1 found nothing or failed
AfterApproach1(pass) == Issue(pass, "a2view")

\* where the cascade goes after approach 2 found nothing or failed
AfterApproach2(pass) == Issue(pass, "a3shapes")

\* mutant of OuterCatch: the failure is recorded and the promise is left pending
OuterCatchPending(pass) == [Failed(pass) EXCEPT !.spc = "lost"]

\* a failure outside the approaches' own try blocks: the outer catch
OuterCatch(pass) == Resolved(Failed(pass))

\* mutant of Approach5and6: the fallback resolves without recording the shapes
Approach5and6NoRecord(pass) ==
    LET atPos == AtPosition(pass.shapes, lastClickedPosition)
        seen == IF hasMousePositionData THEN Attempt(pass, 5) ELSE pass
    IN  IF hasMousePositionData /\ Len(atPos) > 0
        THEN Found(seen, 5, atPos, "position")
        ELSE Resolved(Attempt(seen, 6))

\* mutant of Approach5and6: approach 5 runs without looking at hasMousePositionData
Approach5Unguarded(pass) ==
    LET atPos == AtPosition(pass.shapes, lastClickedPosition)
        seen == Attempt(pass, 5)
    IN  IF Len(atPos) > 0
        THEN Found(seen, 5, atPos, "position")
        ELSE Resolved([Attempt(seen, 6) EXCEPT !.info.allShapes = pass.shapes])

\* Approach 5 and 6 and the end of detectShapesDirectly: no round-trip, one
\* run to resolve()
Approach5and6(pass) ==
    LET atPos == AtPosition(pass.shapes, lastClickedPosition)
        seen == IF hasMousePositionData THEN Attempt(pass, 5) ELSE pass
    IN  IF hasMousePositionData /\ Len(atPos) > 0
        THEN Found(seen, 5, atPos, "position")
        ELSE Resolved([Attempt(seen, 6) EXCEPT !.info.allShapes = pass.shapes])

\* where the cascade goes after approach 4 found nothing or failed
AfterApproach4(pass) == Approach5and6(pass)

\* detectSelectionText: the callback of getSelectedDataAsync(Text)
TextCallback(p) ==
    /\ passes[p].status = "running"
    /\ passes[p].tpc = "wait"
    /\ \E ok \in BOOLEAN :
         LET selectedText == host.text
             found == ok /\ selectedText # ""
         IN  /\ Commit(p, [passes[p] EXCEPT
                              !.tpc = "done",
                              !.info = IF found THEN TextFound(@, selectedText) ELSE @])
             /\ lastSelectedText' = IF found THEN selectedText ELSE lastSelectedText
    /\ UNCHANGED <<Globals, Trigger>>

\* detectShapesDirectly, lines 261-280: the selected slides arrived
ShapeSlides(p) ==
    /\ passes[p].status = "running"
    /\ passes[p].spc = "slides"
    /\ \E ok \in BOOLEAN :
         Commit(p, IF ~ok THEN OuterCatch(passes[p])
                   ELSE IF host.slides = 0 THEN Resolved(passes[p])
                   ELSE Issue(passes[p], "a1sel"))
    /\ UNCHANGED <<Globals, Trigger, lastSelectedText>>

\* Approach 1, lines 280-303: the selection's shapes arrived
Approach1Selection(p) ==
    /\ passes[p].status = "running"
    /\ passes[p].spc = "a1sel"
    /\ \E ok \in BOOLEAN, answer \in SelectionAnswers :
         Commit(p, IF ~ok THEN AfterApproach1(Failed(passes[p]))
                   ELSE IF Len(answer) > 0
                        THEN Issue([passes[p] EXCEPT !.sel = answer], "a1load")
                   ELSE AfterApproach1(passes[p]))
    /\ UNCHANGED <<Globals, Trigger, lastSelectedText>>

\* Approach 1, lines 303-316: the selected shapes' properties arrived
Approach1Load(p) ==
    /\ passes[p].status = "running"
    /\ passes[p].spc = "a1load"
    /\ \E ok \in BOOLEAN :
         Commit(p, IF ~ok THEN AfterApproach1(Failed(passes[p]))
                   ELSE Found(passes[p], 1, passes[p].sel, "direct-selection"))
    /\ UNCHANGED <<Globals, Trigger, lastSelectedText>>

\* Approach 2, lines 322-326: the active view arrived
Approach2View(p) ==
    /\ passes[p].status = "running"
    /\ passes[p].spc = "a2view"
    /\ \E ok \in BOOLEAN, hasSelection \in BOOLEAN :
         Commit(p, IF ~ok THEN AfterApproach2(Failed(passes[p]))
                   ELSE IF hasSelection THEN Issue(passes[p], "a2sel")
                   ELSE AfterApproach2(passes[p]))
    /\ UNCHANGED <<Globals, Trigger, lastSelectedText>>

\* Approach 2, lines 326-335: the view selection's shapes arrived
Approach2Selection(p) ==
    /\ passes[p].status = "running"
    /\ passes[p].spc = "a2sel"
    /\ \E ok \in BOOLEAN, answer \in SelectionAnswers :
         Commit(p, IF ~ok THEN AfterApproach2(Failed(passes[p]))
                   ELSE IF Len(answer) > 0
                        THEN Issue([passes[p] EXCEPT !.sel = answer], "a2load")
                   ELSE AfterApproach2(passes[p]))
    /\ UNCHANGED <<Globals, Trigger, lastSelectedText>>

\* Approach 2, lines 335-349: the selected shapes' properties arrived
Approach2Load(p) ==
    /\ passes[p].status = "running"
    /\ passes[p].spc = "a2load"
    /\ \E ok \in BOOLEAN :
         Commit(p, IF ~ok THEN AfterApproach2(Failed(passes[p]))
                   ELSE Found(passes[p], 2, passes[p].sel, "active-view"))
    /\ UNCHANGED <<Globals, Trigger, lastSelectedText>>

\* mutant of SlideIsEmpty: the check is missing
SlideNeverEmpty(shapes) == FALSE

\* the empty check of approach 3 (line 355)
SlideIsEmpty(shapes) == Len(shapes) = 0

\* Approach 3, lines 353-383: the slide's shapes arrived
Approach3Shapes(p) ==
    /\ passes[p].status = "running"
    /\ passes[p].spc = "a3shapes"
    /\ \E ok \in BOOLEAN :
         Commit(p, IF ~ok THEN OuterCatch(passes[p])
                   ELSE IF SlideIsEmpty(host.shapes) THEN Resolved(passes[p])
                   ELSE Issue(passes[p], "a3props"))
    /\ UNCHANGED <<Globals, Trigger, lastSelectedText>>

\* Approach 3, lines 383-405: the shapes' properties, isSelected among them, arrived
Approach3Props(p) ==
    /\ passes[p].status = "running"
    /\ passes[p].spc = "a3props"
    /\ \E ok \in BOOLEAN :
         LET loaded == [passes[p] EXCEPT !.shapes = ViewAll(host.shapes)]
             selectedShapes == SelectedOf(loaded.shapes)
         IN  Commit(p, IF ~ok THEN OuterCatch(passes[p])
                       ELSE IF Len(selectedShapes) > 0
                            THEN Found(loaded, 3, selectedShapes, "isSelected")
                       ELSE Issue(loaded, "a4mod"))
    /\ UNCHANGED <<Globals, Trigger, lastSelectedText>>

\* Approach 4, lines 405-417: the shapes' lastModified arrived
Approach4Modified(p) ==
    /\ passes[p].status = "running"
    /\ passes[p].spc = "a4mod"
    /\ \E ok \in BOOLEAN :
         LET loaded == [passes[p] EXCEPT !.shapes = WithModified(@, host.shapes)]
             sortedByModified == SortDesc(ModifiedOf(loaded.shapes), "lastModified")
         IN  Commit(p, IF ~ok THEN AfterApproach4(Failed(passes[p]))
                       ELSE IF Len(sortedByModified) > 0
                            THEN Issue([loaded EXCEPT !.recent = <<sortedByModified[1]>>], "a4load")
                       ELSE AfterApproach4(loaded))
    /\ UNCHANGED <<Globals, Trigger, lastSelectedText>>

\* Approach 4, lines 417-430: the most recent shape's properties arrived
Approach4Load(p) ==
    /\ passes[p].status = "running"
    /\ passes[p].spc = "a4load"
    /\ \E ok \in BOOLEAN :
         Commit(p, IF ~ok THEN AfterApproach4(Failed(passes[p]))
                   ELSE Found(passes[p], 4, passes[p].recent, "lastModified"))
    /\ UNCHANGED <<Globals, Trigger, lastSelectedText>>

\* resolve() of the picture channel
PicResolved(pass) == [pass EXCEPT !.ppc = "done"]

\* detectPicturesSpecifically, lines 204-246: what the channel writes once the
\* pictures' properties are loaded
PictureResult(info, pictures) ==
    LET selectedPictures == SelectedOf(pictures)
        bySelected == IF Len(selectedPictures) > 0
                      THEN ClaimTag([info EXCEPT !.pictures = selectedPictures],
                                    "picture-isSelected")
                      ELSE info
        atPos == AtPosition(pictures, lastClickedPosition)
        byPosition == IF Len(bySelected.pictures) = 0 /\ hasMousePositionData /\ Len(atPos) > 0
                      THEN ClaimTag([bySelected EXCEPT !.pictures = atPos], "picture-position")
                      ELSE bySelected
    IN  IF Len(byPosition.pictures) = 0
        THEN [byPosition EXCEPT !.allPictures = pictures]
        ELSE byPosition

\* detectPicturesSpecifically, lines 151-166: the selected slides arrived
PictureSlides(p) ==
    /\ passes[p].status = "running"
    /\ passes[p].ppc = "slides"
    /\ \E ok \in BOOLEAN :
         Commit(p, IF ok /\ host.slides > 0
                   THEN [passes[p] EXCEPT !.ppc = "shapes"]
                   ELSE PicResolved(passes[p]))
    /\ UNCHANGED <<Globals, Trigger, lastSelectedText>>

\* lines 166-180: the slide's shapes arrived
PictureShapes(p) ==
    /\ passes[p].status = "running"
    /\ passes[p].ppc = "shapes"
    /\ \E ok \in BOOLEAN :
         Commit(p, IF ok /\ Len(host.shapes) > 0
                   THEN [passes[p] EXCEPT !.ppc = "types"]
                   ELSE PicResolved(passes[p]))
    /\ UNCHANGED <<Globals, Trigger, lastSelectedText>>

\* lines 180-202: the shapes' types arrived
PictureTypes(p) ==
    /\ passes[p].status = "running"
    /\ passes[p].ppc = "types"
    /\ \E ok \in BOOLEAN :
         LET pictures == PicturesOf(ViewAll(host.shapes))
         IN  Commit(p, IF ok /\ Len(pictures) > 0
                       THEN [passes[p] EXCEPT !.ppc = "props", !.pics = pictures]
                       ELSE PicResolved(passes[p]))
    /\ UNCHANGED <<Globals, Trigger, lastSelectedText>>

\* picture.load("name,id,...,isSelected,...") and the sync after it: the
\* proxies of the pictures now carry the properties the host holds at that sync
PicturesLoaded(pics) ==
    [i \in DOMAIN pics |->
        LET j == CHOOSE k \in DOMAIN host.shapes : host.shapes[k].id = pics[i].id
        IN  View(host.shapes[j])]

\* lines 202-250: the pictures' properties, isSelected among them, arrived
PictureProps(p) ==
    /\ passes[p].status = "running"
    /\ passes[p].ppc = "props"
    /\ \E ok \in BOOLEAN :
         Commit(p, IF ok
                   THEN PicResolved([passes[p] EXCEPT
                                        !.info = PictureResult(@, PicturesLoaded(passes[p].pics))])
                   ELSE PicResolved(passes[p]))
    /\ UNCHANGED <<Globals, Trigger, lastSelectedText>>

----------------------------------------------------------------------------
(* Triggers *)

\* the slot a new pass is kept in
FreeSlot == CHOOSE p \in 1..MaxPasses \ InFlight : \A q \in 1..MaxPasses \ InFlight : p <= q

\* mutant of detectSelectedElement: the passes in flight are dropped
detectSelectedElementCancelling ==
    /\ InFlight # 1..MaxPasses
    /\ passes' = [p \in 1..MaxPasses |->
                     IF p = FreeSlot THEN NewPass
                     ELSE IF passes[p].status = "running" THEN FreePass
                     ELSE passes[p]]
    /\ display' = Detecting

\* detectSelectedElement(): the placeholder is written, a fresh SelectionInfo
\* is created and the three channels are started
detectSelectedElement ==
    /\ InFlight # 1..MaxPasses
    /\ passes' = [passes EXCEPT ![FreeSlot] = NewPass]
    /\ display' = Detecting

\* run(): the 'Get Info' button
Run ==
    /\ detectSelectedElement
    /\ UNCHANGED <<Globals, Trigger, lastSelectedText>>

\* capturePositionButton.onclick
CapturePosition ==
    /\ lastClickedPosition' = lastMousePosition
    /\ hasMousePositionData' = TRUE
    /\ capturedAt' = pointer
    /\ detectSelectedElement
    /\ UNCHANGED <<host, lastMousePosition, pointer, search, older, Trigger, lastSelectedText>>

\* where the pointer may be: over the point the cursor state starts with, or
\* away from it
PointerPositions == { [x |-> 0, y |-> 0], [x |-> 20, y |-> 0] }

\* The user moves the pointer.  The script registers no listener for pointer
\* events, so no handler runs and lastMousePosition keeps its value.
PointerMoved ==
    /\ \E pos \in PointerPositions \ {pointer} : pointer' = pos
    /\ UNCHANGED <<host, lastMousePosition, lastClickedPosition, hasMousePositionData,
                   capturedAt, search, older, Trigger, lastSelectedText, display, passes>>

\* the timers left after clearTimeout(id)
clearTimeout(id) == { t \in timers : t.id # id }

\* mutant of Rearmed: the pending timer is not cleared
RearmedWithoutClear(id) == timers \cup { [id |-> id, due |-> now + Debounce] }

\* the timers the handler leaves armed: the pending one is cleared when
\* selectionChangeTimeout is set, and a new one is armed
Rearmed(id) ==
    (IF selectionChangeTimeout # 0 THEN clearTimeout(selectionChangeTimeout) ELSE timers)
    \cup { [id |-> id, due |-> now + Debounce] }

\* The handlers of a selection-changed event: both registered handlers run,
\* selectionChangedHandler (the debounce) and the tracking handler of
\* setupMouseTracking, which asks the host for the slide range
ChangeHandlers ==
    /\ evCount < MaxEvents
    /\ timers' = Rearmed(evCount + 1)
    /\ selectionChangeTimeout' = evCount + 1
    /\ pendingCapture' = pendingCapture + 1
    /\ evCount' = evCount + 1
    /\ lastEventTime' = now
    /\ burst' = (burst /\ (lastEventTime < 0 \/ now - lastEventTime < Debounce))
    /\ UNCHANGED <<lastMousePosition, lastClickedPosition, hasMousePositionData,
                   pointer, capturedAt, search, older,
                   now, fireCount, lastFireTime, lastSelectedText, display, passes>>

\* a selection-changed event of the host, the host's answers staying the same
SelectionChanged == ChangeHandlers /\ UNCHANGED host

\* the user clicks the first shape of the slide: the host flags it as
\* selected and raises the selection-changed event
ShapeSelected ==
    /\ Len(host.shapes) > 0
    /\ ~host.shapes[1].isSelected
    /\ host' = [host EXCEPT !.shapes[1].isSelected = TRUE]
    /\ ChangeHandlers

\* the user selects a text: the host's text selection changes and the host
\* raises the selection-changed event
TextSelected ==
    /\ host.text = ""
    /\ host' = [host EXCEPT !.text = "hello"]
    /\ ChangeHandlers

\* the callback of the tracking handler's getSelectedDataAsync(SlideRange)
CaptureCallback ==
    /\ pendingCapture > 0
    /\ pendingCapture' = pendingCapture - 1
    /\ \E ok \in BOOLEAN :
         IF ok THEN /\ lastClickedPosition' = lastMousePosition
                    /\ hasMousePositionData' = TRUE
                    /\ capturedAt' = pointer
         ELSE UNCHANGED <<lastClickedPosition, hasMousePositionData, capturedAt>>
    /\ UNCHANGED <<host, lastMousePosition, pointer, search, older, selectionChangeTimeout, timers, now,
                   evCount, lastEventTime, burst, fireCount, lastFireTime,
                   lastSelectedText, display, passes>>

\* mutant of Expired: the callback runs without waiting for the delay
ExpiredAtOnce(t) == TRUE

\* a timer may run its callback once its delay has passed
Expired(t) == t.due <= now

\* the callback of the debounce timer: detectSelectedElement()
TimerFires ==
    \E t \in timers :
        /\ Expired(t)
        /\ timers' = timers \ {t}
        /\ fireCount' = fireCount + 1
        /\ lastFireTime' = now
        /\ detectSelectedElement
        /\ UNCHANGED <<Globals, selectionChangeTimeout, now, pendingCapture,
                       evCount, lastEventTime, burst, lastSelectedText>>

\* time passes
Tick ==
    /\ now < MaxTicks * TickMs
    /\ now' = now + TickMs
    /\ UNCHANGED <<Globals, selectionChangeTimeout, timers, pendingCapture,
                   evCount, lastEventTime, burst, fireCount, lastFireTime,
                   lastSelectedText, display, passes>>

----------------------------------------------------------------------------
(* The text search of the older variant (part_002) *)

\* no search is running
IdleSearch == [status |-> "idle"]

\* the characters of the texts
Chars == {"a", "b"}

RECURSIVE Texts(_)
\* the texts of at most n characters, "" among them
Texts(n) ==
    IF n = 0 THEN { <<>> }
    ELSE Texts(n - 1)
         \cup { Append(s, c) : s \in { x \in Texts(n - 1) : Len(x) = n - 1 }, c \in Chars }

\* the i-th shape of the slide, with the properties the scan loads
SearchShapeChoices(i) ==
    { [id |-> i, text |-> txt, isSelected |-> sel, zIndex |-> z] :
        txt \in Texts(MaxTextLen), sel \in BOOLEAN, z \in 1..MaxSearchShapes }

RECURSIVE SearchSlides(_)
SearchSlides(n) ==
    IF n = 0 THEN { <<>> }
    ELSE { Append(s, c) : s \in SearchSlides(n - 1), c \in SearchShapeChoices(n) }

\* mutant of indexOf: only the whole text matches
indexOfWhole(text, selectedText) == IF text = selectedText THEN 0 ELSE -1

\* text.indexOf(selectedText): the first index the text holds selectedText
\* at, -1 when it holds it nowhere
indexOf(text, selectedText) ==
    LET at == { k \in 0..(Len(text) - Len(selectedText)) :
                    SubSeq(text, k + 1, k + Len(selectedText)) = selectedText }
    IN  IF at = {} THEN -1 ELSE CHOOSE k \in at : \A m \in at : k <= m

\* getShapeDetailsString(shape, index)
getShapeDetailsString(shape, index) == getDetailedShapeInfo(shape, index)

\* getSelectedShapeDetails(selectedText) at line 354: the slide's shapes are
\* loaded, the slide is not empty and selectedText is not empty; i is the
\* index of the shape whose properties the loop is loading
StartedSearches ==
    { [status |-> "scanning", shapes |-> sh, selectedText |-> txt, i |-> 0,
       found |-> "none", message |-> <<Line("Attempting to identify the shape containing this text...")>>] :
        sh \in UNION { SearchSlides(n) : n \in 1..MaxSearchShapes },
        txt \in Texts(MaxTextLen) \ { <<>> } }

\* One iteration of the loop of lines 358-378, from the answer to its sync to
\* the next sync, the break or the end of the loop (lines 380-382); a failed
\* sync is caught at line 434.
ScanStep ==
    /\ search.status = "scanning"
    /\ \E ok \in BOOLEAN :
         LET shape == search.shapes[search.i + 1]
         IN  search' =
               IF ~ok
               THEN [search EXCEPT !.status = "error",
                                   !.message = Append(@, Line("Error processing slide"))]
               ELSE IF shape.text # <<>> /\ indexOf(shape.text, search.selectedText) # -1
               THEN [search EXCEPT !.status = "done", !.found = "text",
                                   !.message = @ \o <<Line("Found shape containing selected text:"),
                                                      getShapeDetailsString(shape, search.i)>>]
               ELSE IF shape.isSelected
               THEN [search EXCEPT !.status = "done", !.found = "selected",
                                   !.message = @ \o <<Line("Found selected shape:"),
                                                      getShapeDetailsString(shape, search.i)>>]
               ELSE IF search.i + 1 < Len(search.shapes)
               THEN [search EXCEPT !.i = @ + 1]
               ELSE [search EXCEPT !.status = "done",
                                   !.message = Append(@, Line("Could not identify which specific shape contains the selected text."))]
    /\ UNCHANGED <<host, lastMousePosition, lastClickedPosition, hasMousePositionData,
                   pointer, capturedAt, older, Trigger, lastSelectedText, display, passes>>

----------------------------------------------------------------------------
(* The pass of the older variant (part_002): detectShapesDirectly writes   *)
(* the display itself, and the text callback writes it beside it.          *)

\* no pass of the older variant has been started
IdleOlder ==
    [status |-> "idle", spc |-> "done", tpc |-> "done", sel |-> <<>>, shapes |-> <<>>,
     top |-> <<>>, failed |-> {}, attempted |-> <<>>, scan |-> FALSE,
     lpc |-> "idle", li |-> 0, selectedText |-> "", message |-> <<>>, lfailed |-> FALSE]

\* the pass when detectSelectedElement returns: detectShapesDirectly waits for
\* the selected slides, getSelectedDataAsync for the text
StartedOlder ==
    [IdleOlder EXCEPT !.status = "running", !.spc = "slides", !.tpc = "wait"]

\* `Found ${n} selected element(s)` and the details of each
FoundMessage(shapes, how) ==
    <<[line |-> "Found selected element(s)", count |-> Len(shapes), how |-> how]>>
    \o [i \in 1..Len(shapes) |-> getDetailedShapeInfo(shapes[i], i - 1)]

\* the message of approach 4
BestGuessMessage(topShape) ==
    <<Line("Best guess of selected element (top-most element):"),
      getDetailedShapeInfo(topShape, 0),
      Line("Note: This is a best guess based on the top-most element on the slide.")>>

\* shapesByType: a sequence of [type, elements], each element with its index
\* in the slide's collection
ShapesByType(shapes) ==
    LET keys == TypesInOrder(shapes)
        indexed == [i \in 1..Len(shapes) |-> [shape |-> shapes[i], index |-> i - 1]]
    IN  [k \in 1..Len(keys) |->
            [type |-> keys[k],
             elements |-> SelectSeq(indexed, LAMBDA e : e.shape.type = keys[k])]]

\* "== <type> Elements (<n>) ==" and the elements under it, numbered by their
\* index in the slide's collection
IndexedGroupLines(group) ==
    <<[line |-> "== Elements ==", type |-> group.type, count |-> Len(group.elements)]>>
    \o [i \in 1..Len(group.elements) |->
            ListedElement(group.elements[i].shape, group.elements[i].index)]

RECURSIVE AllIndexedGroupLines(_)
AllIndexedGroupLines(groups) ==
    IF groups = <<>> THEN <<>>
    ELSE IndexedGroupLines(Head(groups)) \o AllIndexedGroupLines(Tail(groups))

\* the fallback listing of lines 228-262
ListingMessage(shapes) ==
    <<Line("Could not identify which element is selected."),
      [line |-> "All elements on current slide", total |-> Len(shapes)]>>
    \o AllIndexedGroupLines(ShapesByType(shapes))
    \o <<Line("Tips for selecting elements:")>>

\* the message of the outer catch
ErrorDetectingShapes == <<Line("Error detecting shapes")>>

\* mutant of TopShape: the first shape of the collection is taken
FirstShape(shapes) == shapes[1]

\* sortedShapes[0] of approach 4
TopShape(shapes) == SortDesc(shapes, "zIndex")[1]

\* the cascade suspends on the round-trip named call
OlderIssue(o, call) ==
    [o EXCEPT !.spc = call,
              !.attempted = IF Len(@) > 0 /\ @[Len(@)] = StrategyOf(call) THEN @
                            ELSE Append(@, StrategyOf(call))]

\* a round-trip of the cascade failed
OlderFailed(o) == [o EXCEPT !.failed = @ \cup {StrategyOf(o.spc)}]

\* detectShapesDirectly returns
OlderDone(o) == [o EXCEPT !.spc = "done", !.status = "done"]

\* what a step of the older variant's pass leaves alone
OlderKeeps ==
    UNCHANGED <<host, lastMousePosition, lastClickedPosition, hasMousePositionData,
                pointer, capturedAt, search, Trigger, lastSelectedText, passes>>

\* run() of part_002: detectSelectedElement writes the placeholder and
\* starts detectShapesDirectly and the text query
OlderRun ==
    /\ older.status = "idle"
    /\ display' = Detecting
    /\ older' = StartedOlder
    /\ OlderKeeps

\* the callback of getSelectedDataAsync(Text), lines 56-70: a text that is
\* not empty and differs from the last one is displayed and handed to
\* getSelectedShapeDetails
OlderTextCallback ==
    /\ older.tpc = "wait"
    /\ \E ok \in BOOLEAN :
         LET selectedText == host.text
             processed == ok /\ selectedText # lastSelectedText /\ selectedText # ""
         IN  /\ lastSelectedText' = IF processed THEN selectedText ELSE lastSelectedText
             /\ display' = IF processed
                           THEN <<[line |-> "Selected text", text |-> selectedText]>>
                           ELSE display
             /\ older' = [older EXCEPT !.tpc = "done", !.scan = processed,
                                       !.lpc = IF processed THEN "slides" ELSE @,
                                       !.selectedText = IF processed THEN selectedText ELSE @]
    /\ UNCHANGED <<host, lastMousePosition, lastClickedPosition, hasMousePositionData,
                   pointer, capturedAt, search, Trigger, passes>>

\* lines 83-95: the selected slides arrived
OlderSlides ==
    /\ older.spc = "slides"
    /\ \E ok \in BOOLEAN :
         IF ~ok
         THEN /\ older' = OlderDone(OlderFailed(older))
              /\ display' = ErrorDetectingShapes
         ELSE IF host.slides = 0
         THEN /\ older' = OlderDone(older)
              /\ display' = <<Line("No slide is currently selected.")>>
         ELSE /\ older' = OlderIssue(older, "a1sel")
              /\ UNCHANGED display
    /\ OlderKeeps

\* approach 1, lines 99-110: the selection's shapes arrived; a failure is
\* caught at line 124 and approach 2 begins
OlderApproach1Selection ==
    /\ older.spc = "a1sel"
    /\ \E ok \in BOOLEAN, answer \in SelectionAnswers :
         older' = IF ~ok THEN OlderIssue(OlderFailed(older), "a2view")
                  ELSE IF Len(answer) > 0
                       THEN OlderIssue([older EXCEPT !.sel = answer], "a1load")
                  ELSE OlderIssue(older, "a2view")
    /\ UNCHANGED display
    /\ OlderKeeps

\* approach 1, lines 110-123: the selected shapes' properties arrived
OlderApproach1Load ==
    /\ older.spc = "a1load"
    /\ \E ok \in BOOLEAN :
         IF ~ok
         THEN /\ older' = OlderIssue(OlderFailed(older), "a2view")
              /\ UNCHANGED display
         ELSE /\ older' = OlderDone(older)
              /\ display' = FoundMessage(older.sel, "selection")
    /\ OlderKeeps

\* approach 2, lines 130-136: the active view arrived
OlderApproach2View ==
    /\ older.spc = "a2view"
    /\ \E ok \in BOOLEAN, hasSelection \in BOOLEAN :
         older' = IF ~ok THEN OlderIssue(OlderFailed(older), "a3shapes")
                  ELSE IF hasSelection THEN OlderIssue(older, "a2sel")
                  ELSE OlderIssue(older, "a3shapes")
    /\ UNCHANGED display
    /\ OlderKeeps

\* approach 2, lines 136-145: the view selection's shapes arrived
OlderApproach2Selection ==
    /\ older.spc = "a2sel"
    /\ \E ok \in BOOLEAN, answer \in SelectionAnswers :
         older' = IF ~ok THEN OlderIssue(OlderFailed(older), "a3shapes")
                  ELSE IF Len(answer) > 0
                       THEN OlderIssue([older EXCEPT !.sel = answer], "a2load")
                  ELSE OlderIssue(older, "a3shapes")
    /\ UNCHANGED display
    /\ OlderKeeps

\* approach 2, lines 145-157: the selected shapes' properties arrived
OlderApproach2Load ==
    /\ older.spc = "a2load"
    /\ \E ok \in BOOLEAN :
         IF ~ok
         THEN /\ older' = OlderIssue(OlderFailed(older), "a3shapes")
              /\ UNCHANGED display
         ELSE /\ older' = OlderDone(older)
              /\ display' = FoundMessage(older.sel, "active view")
    /\ OlderKeeps

\* approach 3, lines 165-184: the slide's shapes arrived; a failure goes to
\* the outer catch
OlderApproach3Shapes ==
    /\ older.spc = "a3shapes"
    /\ \E ok \in BOOLEAN :
         IF ~ok
         THEN /\ older' = OlderDone(OlderFailed(older))
              /\ display' = ErrorDetectingShapes
         ELSE IF Len(host.shapes) = 0
         THEN /\ older' = OlderDone(older)
              /\ display' = <<Line("No elements found on the current slide.")>>
         ELSE /\ older' = OlderIssue(older, "a3props")
              /\ UNCHANGED display
    /\ OlderKeeps

\* approach 3, lines 184-199, and the start of approach 4, lines 201-211:
\* the shapes' properties arrived
OlderApproach3Props ==
    /\ older.spc = "a3props"
    /\ \E ok \in BOOLEAN :
         IF ~ok
         THEN /\ older' = OlderDone(OlderFailed(older))
              /\ display' = ErrorDetectingShapes
         ELSE LET shapes == ViewAll(host.shapes)
                  selectedShapes == SelectedOf(shapes)
              IN  IF Len(selectedShapes) > 0
                  THEN /\ older' = OlderDone([older EXCEPT !.shapes = shapes])
                       /\ display' = FoundMessage(selectedShapes, "selection")
                  ELSE /\ older' = OlderIssue([older EXCEPT !.shapes = shapes,
                                                            !.top = <<TopShape(shapes)>>],
                                              "a4load")
                       /\ UNCHANGED display
    /\ OlderKeeps

\* approach 4, lines 211-226, and the fallback listing, lines 228-262: the
\* properties of the top-most shape arrived, or the sync failed and the
\* failure was caught at line 222
OlderApproach4Load ==
    /\ older.spc = "a4load"
    /\ \E ok \in BOOLEAN :
         IF ok
         THEN /\ older' = OlderDone(older)
              /\ display' = BestGuessMessage(older.top[1])
         ELSE /\ older' = OlderDone(OlderFailed(older))
              /\ display' = ListingMessage(older.shapes)
    /\ OlderKeeps

----------------------------------------------------------------------------
(* getSelectedShapeDetails(selectedText) of the older variant, started by  *)
(* the text callback of the pass: it reads the display once the slide's    *)
(* shapes are loaded, builds its message from it and writes the display    *)
(* when it ends.                                                           *)

\* the inner catch, line 434: the error is appended to the display
LookupError ==
    /\ display' = Append(display, Line("Error processing slide"))
    /\ older' = [older EXCEPT !.lpc = "done", !.lfailed = TRUE]

\* line 431: the message is written to the display
LookupWrites(message) ==
    /\ display' = message
    /\ older' = [older EXCEPT !.lpc = "done", !.message = message]

\* lines 412-415: the listing begins with the load of the first shape
LookupListing(message) ==
    /\ older' = [older EXCEPT
                    !.lpc = "list", !.li = 0,
                    !.message = Append(message, [line |-> "All elements on current slide",
                                                 total |-> Len(host.shapes)])]
    /\ UNCHANGED display

\* lines 320-329: the selected slides arrived
LookupSlides ==
    /\ older.lpc = "slides"
    /\ \E ok \in BOOLEAN :
         IF ~ok THEN LookupError
         ELSE IF host.slides = 0
         THEN /\ display' = Append(display, Line("No slide is currently selected."))
              /\ older' = [older EXCEPT !.lpc = "done"]
         ELSE /\ older' = [older EXCEPT !.lpc = "shapes"]
              /\ UNCHANGED display
    /\ OlderKeeps

\* lines 334-337: the slide's shape collection arrived
LookupShapes ==
    /\ older.lpc = "shapes"
    /\ \E ok \in BOOLEAN :
         IF ~ok THEN LookupError
         ELSE /\ older' = [older EXCEPT !.lpc = "items"]
              /\ UNCHANGED display
    /\ OlderKeeps

\* lines 338-358 and 426-431: the items arrived; the message starts as the
\* text the display holds now
LookupItems ==
    /\ older.lpc = "items"
    /\ \E ok \in BOOLEAN :
         IF ~ok THEN LookupError
         ELSE IF Len(host.shapes) > 0
         THEN /\ older' = [older EXCEPT
                              !.lpc = "scan", !.li = 0,
                              !.message = Append(display,
                                  Line("Attempting to identify the shape containing this text..."))]
              /\ UNCHANGED display
         ELSE LookupWrites(Append(display, Line("No elements found on the current slide.")))
    /\ OlderKeeps

\* one iteration of the loop of lines 358-378, and lines 380-390 after it
LookupScan ==
    /\ older.lpc = "scan"
    /\ \E ok \in BOOLEAN :
         LET shape == host.shapes[older.li + 1]
         IN  IF ~ok THEN LookupError
             ELSE IF shape.text # "" /\ indexOf(shape.text, older.selectedText) # -1
             THEN LookupWrites(older.message
                               \o <<Line("Found shape containing selected text:"),
                                    getShapeDetailsString(View(shape), older.li)>>)
             ELSE IF shape.isSelected
             THEN LookupWrites(older.message
                               \o <<Line("Found selected shape:"),
                                    getShapeDetailsString(View(shape), older.li)>>)
             ELSE IF older.li + 1 < Len(host.shapes)
             THEN /\ older' = [older EXCEPT !.li = @ + 1]
                  /\ UNCHANGED display
             ELSE /\ older' = [older EXCEPT
                                  !.lpc = "lsel",
                                  !.message = Append(@, Line("Could not identify which specific shape contains the selected text."))]
                  /\ UNCHANGED display
    /\ OlderKeeps

\* the second attempt, lines 388-398: the selection's shapes arrived; a
\* failure is caught at line 404 and the listing begins
LookupSelection ==
    /\ older.lpc = "lsel"
    /\ \E ok \in BOOLEAN, answer \in SelectionAnswers :
         IF ok /\ Len(answer) > 0
         THEN /\ older' = [older EXCEPT
                              !.lpc = "lselload", !.sel = answer,
                              !.message = Append(@, Line("Found selected shape via selection API:"))]
              /\ UNCHANGED display
         ELSE LookupListing(older.message)
    /\ OlderKeeps

\* lines 398-408: the selected shape's properties arrived
LookupSelectionLoad ==
    /\ older.lpc = "lselload"
    /\ \E ok \in BOOLEAN :
         IF ok
         THEN LookupWrites(Append(older.message, getShapeDetailsString(older.sel[1], 0)))
         ELSE LookupListing(older.message)
    /\ OlderKeeps

\* one iteration of the loop of lines 416-424, and lines 426-431 after it
LookupList ==
    /\ older.lpc = "list"
    /\ \E ok \in BOOLEAN :
         LET listed == Append(older.message,
                              ListedElement(View(host.shapes[older.li + 1]), older.li))
         IN  IF ~ok THEN LookupError
             ELSE IF older.li + 1 < Len(host.shapes)
             THEN /\ older' = [older EXCEPT !.li = @ + 1, !.message = listed]
                  /\ UNCHANGED display
             ELSE LookupWrites(Append(listed,
                      Line("Tip: Select text within a shape to help identify it more precisely.")))
    /\ OlderKeeps

----------------------------------------------------------------------------
(* Specifications *)

\* the globals of the page after Office.onReady, for a host h
InitIdle(h) ==
    /\ host = h
    /\ lastSelectedText = ""
    /\ selectionChangeTimeout = 0
    /\ lastMousePosition = [x |-> 0, y |-> 0]
    /\ lastClickedPosition = [x |-> 0, y |-> 0]
    /\ hasMousePositionData = FALSE
    /\ timers = {}
    /\ now = 0
    /\ pendingCapture = 0
    /\ display = InitialDisplay
    /\ evCount = 0
    /\ lastEventTime = -1
    /\ burst = TRUE
    /\ fireCount = 0
    /\ lastFireTime = -1
    /\ pointer = [x |-> 0, y |-> 0]
    /\ capturedAt = [x |-> 0, y |-> 0]

\* the state of the page after Office.onReady: no pass has been started
InitPage(h) == InitIdle(h) /\ passes = [p \in 1..MaxPasses |-> FreePass]

InitWith(h) == InitPage(h) /\ search = IdleSearch /\ older = IdleOlder

Init == \E h \in Hosts : InitWith(h)

\* the steps of the passes in flight
PassStep ==
    \E p \in 1..MaxPasses :
        \/ TextCallback(p)
        \/ PictureSlides(p)
        \/ PictureShapes(p)
        \/ PictureTypes(p)
        \/ PictureProps(p)
        \/ ShapeSlides(p)
        \/ Approach1Selection(p)
        \/ Approach1Load(p)
        \/ Approach2View(p)
        \/ Approach2Selection(p)
        \/ Approach2Load(p)
        \/ Approach3Shapes(p)
        \/ Approach3Props(p)
        \/ Approach4Modified(p)
        \/ Approach4Load(p)

NoPassYet == \A p \in 1..MaxPasses : passes[p].status = "free"

\* One detection pass against every host of the family: the user presses one
\* of the two buttons, and the pass runs under every order of the host's
\* answers and every failure of a round-trip.
Next ==
    \/ (NoPassYet /\ Run)
    \/ (NoPassYet /\ CapturePosition)
    \/ PassStep

Spec == Init /\ [][Next]_vars

InitTrigger == \E h \in HostsNoSlide : h.text = "" /\ InitWith(h)

\* The triggers and the clock, with passes started while others are in
\* flight.  No slide is selected in these hosts, so each channel of a pass
\* resolves at its first answer and the other steps of a pass are never
\* enabled.
NextTrigger ==
    \/ SelectionChanged
    \/ CaptureCallback
    \/ TimerFires
    \/ Tick
    \/ Run
    \/ CapturePosition
    \/ \E p \in 1..MaxPasses : TextCallback(p) \/ PictureSlides(p) \/ ShapeSlides(p)

SpecTrigger == InitTrigger /\ [][NextTrigger]_vars

\* the hosts of the sessions: a slide with at most one shape, or no slide
SessionHosts == { h \in Hosts : Len(h.shapes) <= 1 }

InitSession == \E h \in SessionHosts : InitWith(h)

\* A session of the user: the pointer moves, and the buttons are pressed one
\* pass after the other, each pass running to its display before the next
\* press.
NextSession ==
    \/ PointerMoved
    \/ (InFlight = {} /\ Run)
    \/ (InFlight = {} /\ CapturePosition)
    \/ PassStep

SpecSession == InitSession /\ [][NextSession]_vars

\* One pass against a host of the sessions, when every round-trip of the host
\* is eventually answered, with success or with failure: a pending callback
\* or continuation is eventually run by the event loop.
SpecAnswered == InitSession /\ [][Next]_vars /\ WF_vars(PassStep)

InitTextSearch ==
    /\ \E h \in HostsNoSlide : h.text = "" /\ InitPage(h)
    /\ search \in StartedSearches
    /\ older = IdleOlder

NextTextSearch == ScanStep

\* The scan of the older variant for the shape that holds the selected text,
\* over every slide and selected text of the bounds.
SpecTextSearch == InitTextSearch /\ [][NextTextSearch]_vars

\* an element as the formatter reads it, with the properties it prints
FormatElement(id, type, name, alt, title, format, text) ==
    [id |-> id, type |-> type, name |-> name, left |-> 10, top |-> 20,
     width |-> 100, height |-> 50, zIndex |-> 2, altTextDescription |-> alt,
     altTextTitle |-> title, imageFormat |-> format, text |-> text]

\* the elements of the formatted selections: pictures with and without a
\* name, an alternative text, a title and image data, and one text box
FormatElements ==
    { FormatElement("p1", "Picture", "Logo", alt, title, format, "") :
          alt \in {"", "A logo"}, title \in {"", "Title"}, format \in {Null, "", "png"} }
    \cup { FormatElement("p2", "Picture", "", "", "", Null, ""),
           FormatElement("r1", "TextBox", "", "", "", Null, "hi") }

\* the lists of at most MaxShapes of these elements, no id twice
FormatLists ==
    { s \in UNION { [1..n -> FormatElements] : n \in 0..MaxShapes } :
          \A i, j \in 1..Len(s) : i # j => s[i].id # s[j].id }

\* The SelectionInfo objects handed to the formatter.  An element held in
\* pictures and in shapes is the same shape of the slide, with the same
\* properties in both lists.
FormatInputs ==
    { info \in
          { [NewSelectionInfo EXCEPT !.pictures = pics, !.shapes = shps, !.text = txt,
                                     !.detectionMethod = "isSelected"] :
                pics \in { s \in FormatLists : \A i \in 1..Len(s) : s[i].type = "Picture" },
                shps \in { s \in FormatLists : Len(s) <= 1 },
                txt \in {Null, "hello"} } :
          \A i \in 1..Len(info.pictures), j \in 1..Len(info.shapes) :
              info.pictures[i].id = info.shapes[j].id => info.pictures[i] = info.shapes[j] }

InitFormat ==
    /\ \E h \in HostsNoSlide : h.text = "" /\ InitIdle(h)
    /\ search = IdleSearch
    /\ older = IdleOlder
    /\ \E info \in FormatInputs :
           passes = [p \in 1..MaxPasses |->
                        IF p = 1 THEN [FreePass EXCEPT !.status = "running", !.info = info]
                        ELSE FreePass]

\* displaySelectionInfo(selectionInfo), the text written line by line
Format ==
    /\ passes[1].status = "running"
    /\ AllResolved(passes[1])
    /\ display' = ReportLines(displaySelectionInfo(passes[1].info))
    /\ passes' = [passes EXCEPT ![1].status = "displayed"]
    /\ UNCHANGED <<Globals, Trigger, lastSelectedText>>

\* The formatter applied to every SelectionInfo of FormatInputs.
SpecFormat == InitFormat /\ [][Format]_vars

\* where the boxes of the shapes lie about the captured point (0, 0), each
\* box 10 wide and 10 high: the point one unit outside, on the far border,
\* on the near border, one unit outside
Offsets == {-11, -10, 0, 1}

\* an unflagged shape without timestamp, its box at (lft, tp)
PlacedShape(i, ty, lft, tp) == [HostShape(i, ty, FALSE, FALSE, lft) EXCEPT !.top = tp]

RECURSIVE PlacedSeqs(_)
PlacedSeqs(n) ==
    IF n = 0 THEN { <<>> }
    ELSE { Append(s, PlacedShape(n, ty, lft, tp)) :
               s \in PlacedSeqs(n - 1), ty \in ShapeTypes, lft \in Offsets, tp \in Offsets }

\* the hosts of the containment test: a slide of 1..MaxShapes placed shapes
GeometryHosts ==
    { [slides |-> 1, shapes |-> sh, text |-> ""] :
          sh \in UNION { PlacedSeqs(n) : n \in 1..MaxShapes } }

InitGeometry == \E h \in GeometryHosts : InitWith(h)

\* One pass started by 'Capture Current Position' on a slide where nothing
\* is flagged and nothing carries a timestamp: the steps that load selected
\* or modified shapes are never enabled.
NextGeometry ==
    \/ (NoPassYet /\ CapturePosition)
    \/ \E p \in 1..MaxPasses :
        \/ TextCallback(p)
        \/ PictureSlides(p)
        \/ PictureShapes(p)
        \/ PictureTypes(p)
        \/ PictureProps(p)
        \/ ShapeSlides(p)
        \/ Approach1Selection(p)
        \/ Approach2View(p)
        \/ Approach2Selection(p)
        \/ Approach3Shapes(p)
        \/ Approach3Props(p)
        \/ Approach4Modified(p)

SpecGeometry == InitGeometry /\ [][NextGeometry]_vars

\* the hosts of the paired passes: a slide with one picture, flagged as
\* selected, and a text selection or none
PairHosts ==
    { [slides |-> 1, shapes |-> <<HostShape(1, "Picture", TRUE, FALSE, 0)>>, text |-> txt] :
          txt \in HostTexts }

InitPair == \E h \in PairHosts : InitWith(h)

\* Two passes over the same host and the same cursor state: 'Get Info' is
\* pressed, and pressed again while the first pass is in flight.  The
\* channels of the two passes complete in every order, independently.
NextPair ==
    \/ (NoPassYet /\ Run)
    \/ (passes[1].status = "running" /\ passes[2].status = "free" /\ Run)
    \/ \E p \in 1..MaxPasses :
        \/ TextCallback(p)
        \/ PictureSlides(p)
        \/ PictureShapes(p)
        \/ PictureTypes(p)
        \/ PictureProps(p)
        \/ ShapeSlides(p)
        \/ Approach1Selection(p)
        \/ Approach1Load(p)
        \/ Approach2View(p)
        \/ Approach2Selection(p)
        \/ Approach2Load(p)
        \/ Approach3Shapes(p)
        \/ Approach3Props(p)

SpecPair == InitPair /\ [][NextPair]_vars

\* the hosts of the older variant's pass: no text is selected
OlderHosts == { h \in Hosts : h.text = "" }

InitOlder == \E h \in OlderHosts : InitWith(h)

\* One pass of the older variant (part_002), started by 'Get Info', under
\* every order and failure of the host's answers.
NextOlder ==
    \/ OlderRun
    \/ OlderTextCallback
    \/ OlderSlides
    \/ OlderApproach1Selection
    \/ OlderApproach1Load
    \/ OlderApproach2View
    \/ OlderApproach2Selection
    \/ OlderApproach2Load
    \/ OlderApproach3Shapes
    \/ OlderApproach3Props
    \/ OlderApproach4Load

SpecOlder == InitOlder /\ [][NextOlder]_vars

\* A pass started by 'Get Info' and a change of the selection while it is
\* in flight: the event arms the debounce timer, and the timer starts a
\* second pass beside the first.  No slide is selected in these hosts.
NextOverlap ==
    \/ (NoPassYet /\ evCount = 0 /\ Run)
    \/ (InFlight # {} /\ evCount = 0 /\ TextSelected)
    \/ CaptureCallback
    \/ TimerFires
    \/ Tick
    \/ \E p \in 1..MaxPasses : TextCallback(p) \/ PictureSlides(p) \/ ShapeSlides(p)

SpecOverlap == InitTrigger /\ [][NextOverlap]_vars

\* the hosts whose selection changes during a pass: a slide with one
\* picture, not flagged, and a text selection or none
LiveHosts ==
    { [slides |-> 1, shapes |-> <<HostShape(1, "Picture", FALSE, FALSE, 0)>>, text |-> txt] :
          txt \in HostTexts }

InitLive == \E h \in LiveHosts : InitWith(h)

\* One pass started by 'Get Info', and the user selecting the picture while
\* the pass is in flight: each round-trip is answered from the host as it is
\* when the answer is made.  The debounce timer does not expire before the
\* pass ends.
NextLive ==
    \/ (NoPassYet /\ Run)
    \/ (InFlight # {} /\ ShapeSelected)
    \/ CaptureCallback
    \/ \E p \in 1..MaxPasses :
        \/ TextCallback(p)
        \/ PictureSlides(p)
        \/ PictureShapes(p)
        \/ PictureTypes(p)
        \/ PictureProps(p)
        \/ ShapeSlides(p)
        \/ Approach1Selection(p)
        \/ Approach1Load(p)
        \/ Approach2View(p)
        \/ Approach2Selection(p)
        \/ Approach2Load(p)
        \/ Approach3Shapes(p)
        \/ Approach3Props(p)
        \/ Approach4Modified(p)

SpecLive == InitLive /\ [][NextLive]_vars

\* a shape of the slide with the text it holds
WithText(s, txt) ==
    [f \in DOMAIN s \cup {"text"} |-> IF f = "text" THEN txt ELSE s[f]]

\* what a shape of the lookup's slides may hold: no text, or a text that
\* contains the selected text
ShapeTexts == {"", "hello!"}

RECURSIVE TextShapeSeqs(_)
TextShapeSeqs(n) ==
    IF n = 0 THEN { <<>> }
    ELSE { Append(s, WithText(HostShape(n, "GeometricShape", sel, FALSE, 0), txt)) :
               s \in TextShapeSeqs(n - 1), sel \in BOOLEAN, txt \in ShapeTexts }

\* the hosts of the text lookup: the text "hello" is selected, on a slide of
\* at most MaxShapes shapes, or with no slide selected
LookupHosts ==
    { [slides |-> 1, shapes |-> sh, text |-> "hello"] :
          sh \in UNION { TextShapeSeqs(n) : n \in 0..MaxShapes } }
    \cup { [slides |-> 0, shapes |-> <<>>, text |-> "hello"] }

InitLookup == \E h \in LookupHosts : InitWith(h)

\* One pass of the older variant while a text is selected: the shape
\* detection and the text callback with the lookup it starts run side by
\* side, under every order and failure of the host's answers.  The lookup's
\* load of a shape taken from the selection is never reached on these hosts:
\* a flagged shape is found by the scan before it.
NextLookup ==
    \/ OlderRun
    \/ OlderTextCallback
    \/ OlderSlides
    \/ OlderApproach1Selection
    \/ OlderApproach1Load
    \/ OlderApproach2View
    \/ OlderApproach2Selection
    \/ OlderApproach2Load
    \/ OlderApproach3Shapes
    \/ OlderApproach3Props
    \/ OlderApproach4Load
    \/ LookupSlides
    \/ LookupShapes
    \/ LookupItems
    \/ LookupScan
    \/ LookupSelection
    \/ LookupList

SpecLookup == InitLookup /\ [][NextLookup]_vars

----------------------------------------------------------------------------
(* Claims *)

Range(s) == { s[i] : i \in 1..Len(s) }

Started == { p \in 1..MaxPasses : passes[p].status # "free" }
Displayed == { p \in 1..MaxPasses : passes[p].status = "displayed" }

HasLine(text, s) == \E i \in 1..Len(text) : text[i].line = s

NoElementsFound ==
    <<Line("No element is currently selected."),
      Line("No elements found on the current slide.")>>

\* C1 (as stated): within a pass selectionInfo.detectionMethod is assigned a
\* new value at most once, whatever the order in which the channels complete.
C1_TagSetAtMostOnce ==
    \A p \in 1..MaxPasses : Len(passes[p].tags) <= 1

\* the strategies of a cascade run so far are 1, 2, 3, 4 without a gap, then
\* 5 and 6 in this order (5 is left out while no position was captured)
InFixedOrder(a) ==
    /\ \A i \in 1..Len(a) : IF i <= 4 THEN a[i] = i ELSE a[i] \in {5, 6}
    /\ \A i \in 1..(Len(a) - 1) : a[i] < a[i + 1]

\* selectionInfo.shapes is what strategy k finds in the data the pass loaded
IsResultOf(pass, k) ==
    LET shapes == pass.info.shapes
    IN  CASE k \in {1, 2} -> shapes = pass.sel
          [] k = 3 -> Range(shapes) = { s \in Range(pass.shapes) : s.isSelected }
          [] k = 4 -> /\ shapes = pass.recent
                      /\ \A s \in Range(pass.shapes) : s.lastModified <= shapes[1].lastModified
          [] k = 5 -> Range(shapes) =
                        { s \in Range(pass.shapes) : ContainsPoint(lastClickedPosition, s) }

\* C2: the shape cascade attempts its strategies in the fixed order; a
\* strategy is begun only while no earlier one has found anything; the first
\* strategy with a non-empty result ends the cascade and selectionInfo.shapes
\* is exactly its result.
C2_CascadeInOrder ==
    \A p \in 1..MaxPasses :
        LET pass == passes[p]
            a == pass.attempted
            w == pass.wrote
        IN  /\ InFixedOrder(a)
            /\ pass.spc \notin {"slides", "done"} =>
                  /\ a # <<>>
                  /\ a[Len(a)] = StrategyOf(pass.spc)
                  /\ w = <<>>
            /\ Len(w) <= 1
            /\ w = <<>> => pass.info.shapes = <<>>
            /\ w # <<>> =>
                  /\ a[Len(a)] = w[1]
                  /\ pass.spc = "done"
                  /\ Len(pass.info.shapes) > 0
                  /\ IsResultOf(pass, w[1])

\* C2 witness: a pass in which strategies 1 to 4 found nothing and strategy 5
\* produced the result
C2_Witness ==
    \E p \in Displayed :
        /\ passes[p].attempted = <<1, 2, 3, 4, 5>>
        /\ passes[p].wrote = <<5>>
        /\ Len(passes[p].info.shapes) = 2

\* the passes of C3: strategy 1 failed and strategy 3 found one shape
Strategy1FailedAnd3FoundOne ==
    { p \in Displayed : /\ 1 \in passes[p].failed
                        /\ passes[p].wrote = <<3>>
                        /\ Len(passes[p].info.shapes) = 1 }

\* C3 (as stated): when strategy 1 failed and strategy 3 found one selected
\* shape, the final tag is "isSelected" and no error message is displayed.
C3_FinalTagIsStrategy3 ==
    \A p \in Strategy1FailedAnd3FoundOne :
        /\ passes[p].info.detectionMethod = "isSelected"
        /\ ~ IsErrorText(display)

\* C3 (amended): when strategy 1 failed and strategy 3 found one selected
\* shape, the final tag is never strategy 1's and no error message is
\* displayed; the tag is "text" when the free-text channel recorded a text,
\* "isSelected" when neither that channel nor the picture channel found
\* anything, and otherwise "isSelected" or the picture channel's tag,
\* whichever was claimed first.
C3_FinalTagOfFirstFinder ==
    \A p \in Strategy1FailedAnd3FoundOne :
        LET info == passes[p].info
        IN  /\ ~ IsErrorText(display)
            /\ display = SelectionReport(info)
            /\ HasLine(display, "Detection method")
            /\ info.detectionMethod # "direct-selection"
            /\ info.text # Null => info.detectionMethod = "text"
            /\ (info.text = Null /\ info.pictures = <<>>) =>
                  info.detectionMethod = "isSelected"
            /\ (info.text = Null /\ info.pictures # <<>>) =>
                  info.detectionMethod \in
                      {"isSelected", "picture-isSelected", "picture-position"}

\* C3 witness: such a pass whose final tag is strategy 3's
C3_Witness ==
    \E p \in Strategy1FailedAnd3FoundOne :
        /\ passes[p].info.detectionMethod = "isSelected"
        /\ passes[p].info.text = Null

\* C4 (as stated): a failed round-trip of a single strategy counts as 'found
\* nothing': when the slide has shapes and no strategy found any, the
\* cascade ends in the fallback, which records every shape of the slide.
C4_FailureNeverEndsCascade ==
    \A p \in Started :
        LET pass == passes[p]
        IN  (/\ pass.spc = "done"
             /\ host.slides > 0
             /\ Len(host.shapes) > 0
             /\ pass.failed \in {{1}, {2}, {3}, {4}}
             /\ pass.wrote = <<>>)
            => /\ pass.attempted[Len(pass.attempted)] = 6
               /\ pass.info.allShapes = ViewAll(pass.shapes)
               /\ Len(pass.info.allShapes) = Len(host.shapes)

\* C5 (as stated): a pass whose fetch of the selected slides failed ends
\* with an error message on the display and renders no report.
C5_FetchFailureShowsError ==
    \A p \in Displayed :
        0 \in passes[p].failed =>
            /\ IsErrorText(display)
            /\ ~ HasLine(display, "No element is currently selected.")
            /\ ~ HasLine(display, "=== CURRENT SELECTION INFO ===")

\* C6: while every selection-changed event so far came less than Debounce
\* after the one before, the debounce timer has started at most one pass,
\* that pass started no earlier than Debounce after the last event, and once
\* no timer is armed any more it has started exactly one.
C6_OnePassAfterQuietPeriod ==
    (burst /\ evCount > 0) =>
        /\ fireCount <= 1
        /\ fireCount = 1 => lastFireTime >= lastEventTime + Debounce
        /\ timers = {} => fireCount = 1

\* C6 witness: three events 100 ms apart, the last at t = 200, and the one
\* pass started at t = 500
C6_Witness ==
    /\ burst
    /\ evCount = 3
    /\ lastEventTime = 200
    /\ fireCount = 1
    /\ lastFireTime = 500

\* C7: at most one debounce timer is armed, and it is the one armed by the
\* last selection-changed event: an event that finds a timer pending has
\* cancelled it.
C7_OneTimerArmed ==
    /\ Cardinality(timers) <= 1
    /\ \A t \in timers : /\ t.id = selectionChangeTimeout
                         /\ t.due = lastEventTime + Debounce

\* C7 witness: a second event arrived while the timer of the first was
\* pending, and one timer is armed
C7_Witness ==
    /\ evCount = 2
    /\ fireCount = 0
    /\ lastEventTime = 200
    /\ timers = { [id |-> 2, due |-> 200 + Debounce] }

\* C8 (as stated): at most one detection pass is in flight.
C8_AtMostOnePassInFlight == Cardinality(InFlight) <= 1

\* C9 (as stated): on a slide with zero shapes no strategy is attempted, and
\* the pass ends with the 'no elements found' result.
C9_NoStrategyOnEmptySlide ==
    (host.slides > 0 /\ Len(host.shapes) = 0) =>
        \A p \in Started :
            /\ passes[p].attempted = <<>>
            /\ (p \in Displayed /\ passes[p].info.text = Null) => display = NoElementsFound

\* C9 (amended): on a slide with zero shapes the direct-selection and
\* active-view queries are still issued, since the empty check follows them;
\* the cascade then stops at the empty check: the isSelected property load
\* and strategies 4, 5 and 6 are never attempted, nothing is recorded, and a
\* pass that recorded no text ends with the 'no elements found' result.
C9_CascadeStopsAtEmptyCheck ==
    (host.slides > 0 /\ Len(host.shapes) = 0) =>
        \A p \in Started :
            LET pass == passes[p]
            IN  /\ pass.spc \notin {"a3props", "a4mod", "a4load"}
                /\ \A i \in 1..Len(pass.attempted) : pass.attempted[i] \in {1, 2, 3}
                /\ pass.wrote = <<>>
                /\ pass.info.shapes = <<>>
                /\ pass.info.allShapes = <<>>
                /\ pass.info.pictures = <<>>
                /\ (p \in Displayed /\ pass.info.text = Null) => display = NoElementsFound

\* C9 witness: a displayed pass on a slide with zero shapes that reached the
\* empty check after the two selection queries
C9_Witness ==
    /\ host.slides > 0
    /\ Len(host.shapes) = 0
    /\ \E p \in Displayed :
          /\ passes[p].attempted = <<1, 2, 3>>
          /\ passes[p].failed = {}
          /\ display = NoElementsFound

\* C10 (as stated): with no slide selected the pass reports 'no slide
\* selected' and issues no shape fetch, selection query or strategy call.
C10_NoSlideIsReported ==
    host.slides = 0 =>
        \A p \in Started :
            /\ passes[p].attempted = <<>>
            /\ passes[p].ppc \in {"slides", "done"}
            /\ p \in Displayed => HasLine(display, "No slide is currently selected.")

\* the shapes of the slide whose isSelected flag is set, as strategy 3 loads them
FlaggedShapes == { View(host.shapes[i]) : i \in { j \in 1..Len(host.shapes) : host.shapes[j].isSelected } }

\* strategy 3 of the pass was reached on a non-empty slide and both its
\* round-trips were answered
Strategy3Answered(pass) ==
    /\ Len(host.shapes) > 0
    /\ 3 \in Range(pass.attempted)
    /\ 3 \notin pass.failed
    /\ pass.spc \notin {"a3shapes", "a3props"}

\* C11: when strategies 1 and 2 failed or returned no shape and strategy 3
\* was answered, its output is, as a set, exactly the shapes of the slide
\* whose isSelected flag is set: it writes selectionInfo.shapes with all of
\* them and nothing else, and writes nothing when no shape is flagged.
C11_Strategy3ReportsFlagged ==
    \A p \in Started :
        LET pass == passes[p]
        IN  Strategy3Answered(pass) =>
                IF FlaggedShapes # {}
                THEN /\ pass.wrote = <<3>>
                     /\ Range(pass.info.shapes) = FlaggedShapes
                     /\ Len(pass.info.shapes) = Cardinality(FlaggedShapes)
                ELSE 3 \notin Range(pass.wrote)

\* C11 witness: strategy 1 failed, strategy 2 returned nothing, and strategy 3
\* reported the one flagged shape of a slide that also holds an unflagged one
C11_Witness ==
    /\ Len(host.shapes) = 2
    /\ Cardinality(FlaggedShapes) = 1
    /\ \E p \in Displayed :
          /\ passes[p].failed = {1}
          /\ passes[p].attempted = <<1, 2, 3>>
          /\ passes[p].wrote = <<3>>
          /\ Range(passes[p].info.shapes) = FlaggedShapes

\* a position was captured, the slide holds shapes, every one of them
\* contains the captured position and none carries the selected flag
AllShapesAtCapturedPoint ==
    /\ hasMousePositionData
    /\ Len(host.shapes) > 0
    /\ \A i \in 1..Len(host.shapes) :
          /\ ContainsPoint(lastClickedPosition, host.shapes[i])
          /\ ~host.shapes[i].isSelected

DescendingByZIndex(shapes) ==
    \A i, j \in 1..Len(shapes) : i < j => shapes[i].zIndex >= shapes[j].zIndex

\* the list holds every shape of the slide, top-most first
AllShapesTopFirst(shapes) ==
    /\ Len(shapes) = Len(host.shapes)
    /\ { shapes[i].id : i \in 1..Len(shapes) } = { host.shapes[i].id : i \in 1..Len(host.shapes) }
    /\ DescendingByZIndex(shapes)
    /\ \A i \in 1..Len(host.shapes) : shapes[1].zIndex >= host.shapes[i].zIndex

SomeShapeHasTimestamp == \E i \in 1..Len(host.shapes) : host.shapes[i].lastModified # 0

MaxTimestamp ==
    CHOOSE m \in { host.shapes[i].lastModified : i \in 1..Len(host.shapes) } :
        \A i \in 1..Len(host.shapes) : m >= host.shapes[i].lastModified

\* strategy 4 of the pass was reached, its round-trips were answered and a
\* shape of the slide carries a timestamp
Strategy4Answered(pass) ==
    /\ pass.status = "displayed"
    /\ 4 \in Range(pass.attempted)
    /\ 4 \notin pass.failed
    /\ SomeShapeHasTimestamp

\* selectionInfo.shapes is the one shape with the latest timestamp
OnlyMostRecentShape(info) ==
    /\ Len(info.shapes) = 1
    /\ info.shapes[1].lastModified = MaxTimestamp

\* C13 (as stated): when strategy 4 is reached and a shape carries a
\* timestamp, selectionInfo.shapes is the one shape with the latest
\* timestamp and the final tag of the pass is "lastModified".
C13_TagIsLastModified ==
    \A p \in Started :
        Strategy4Answered(passes[p]) =>
            /\ OnlyMostRecentShape(passes[p].info)
            /\ passes[p].info.detectionMethod = "lastModified"

\* C13 (amended): when strategy 4 is reached, its round-trips succeed and a
\* shape carries a timestamp, selectionInfo.shapes is the one shape with the
\* latest timestamp and strategy 4 is the only strategy that wrote it.  The
\* final tag is "lastModified" when the free-text channel recorded no text
\* and the picture channel found no picture; it is "text" when a text was
\* recorded, and otherwise "lastModified" or "picture-position", whichever
\* was claimed first.
C13_MostRecentShapeAndSharedTag ==
    \A p \in Started :
        LET info == passes[p].info
        IN  Strategy4Answered(passes[p]) =>
                /\ OnlyMostRecentShape(info)
                /\ passes[p].wrote = <<4>>
                /\ info.text # Null => info.detectionMethod = "text"
                /\ info.text = Null => info.detectionMethod \in {"lastModified", "picture-position"}
                /\ (info.text = Null /\ info.pictures = <<>>) => info.detectionMethod = "lastModified"

\* C13 witness: two shapes carry a timestamp and strategy 4 reported the
\* later one, with its own tag
C13_Witness ==
    /\ Len(host.shapes) = 2
    /\ \A i \in 1..2 : host.shapes[i].lastModified # 0
    /\ \E p \in Displayed :
          /\ Strategy4Answered(passes[p])
          /\ passes[p].info.shapes[1].id = 2
          /\ passes[p].info.detectionMethod = "lastModified"

\* C14: while hasMousePositionData is false, no pass performs the containment
\* test: strategy 5 is neither attempted nor writes the shape list, the
\* picture channel records only pictures carrying the selected flag, no tag
\* of a position strategy is assigned and no error is displayed; a cascade
\* that leaves strategy 4 with nothing goes on to the fallback, which
\* records every shape of the slide.
C14_NoContainmentTestWithoutCursor ==
    ~hasMousePositionData =>
        /\ ~IsErrorText(display)
        /\ \A p \in Started :
              LET pass == passes[p]
              IN  /\ 5 \notin Range(pass.attempted)
                  /\ 5 \notin Range(pass.wrote)
                  /\ Range(pass.tags) \cap {"position", "picture-position"} = {}
                  /\ \A i \in 1..Len(pass.info.pictures) : pass.info.pictures[i].isSelected
                  /\ (4 \in Range(pass.attempted) /\ pass.spc = "done" /\ pass.wrote = <<>>) =>
                         /\ pass.attempted[Len(pass.attempted)] = 6
                         /\ Len(pass.info.allShapes) = Len(host.shapes)

\* C14 witness: no position was ever captured, a picture lies under the
\* point (0, 0) the cursor state starts with, and the pass went from
\* strategy 4 to the fallback
C14_Witness ==
    /\ ~hasMousePositionData
    /\ \E i \in 1..Len(host.shapes) :
          /\ ContainsPoint(lastClickedPosition, host.shapes[i])
          /\ host.shapes[i].type = "Picture"
    /\ \E p \in Displayed :
          /\ passes[p].attempted = <<1, 2, 3, 4, 6>>
          /\ passes[p].ppc = "done"
          /\ Len(passes[p].info.allPictures) > 0
          /\ Len(passes[p].info.allShapes) > 0

\* the cascade of the pass ended in the exhaustive fallback
EndedInFallback(pass) ==
    /\ pass.status = "displayed"
    /\ Len(pass.attempted) > 0
    /\ pass.attempted[Len(pass.attempted)] = 6

FlaggedPictures ==
    { View(host.shapes[i]) : i \in { j \in 1..Len(host.shapes) :
                                        /\ host.shapes[j].type = "Picture"
                                        /\ host.shapes[j].isSelected } }

\* what a step of the picture channel may do to the SelectionInfo of its pass
PictureChannelFrame(before, after) ==
    /\ after.shapes = before.shapes
    /\ after.text = before.text
    /\ after.allShapes = before.allShapes
    /\ before.detectionMethod # Null => after.detectionMethod = before.detectionMethod
    /\ after.detectionMethod \in {before.detectionMethod, "picture-isSelected", "picture-position"}
    /\ \A i \in 1..Len(after.pictures) : after.pictures[i].type = "Picture"
    /\ \A i \in 1..Len(after.allPictures) : after.allPictures[i].type = "Picture"
    /\ after.pictures # before.pictures =>
          IF FlaggedPictures # {}
          THEN Range(after.pictures) = FlaggedPictures
          ELSE /\ hasMousePositionData
               /\ \A i \in 1..Len(after.pictures) :
                     ContainsPoint(lastClickedPosition, after.pictures[i])

\* C17: every step of the picture channel of a running pass leaves shapes,
\* text and an already claimed tag as they are, records only shapes of kind
\* Picture, and records the pictures under the captured position only when
\* no picture carries the selected flag.
C17_PictureChannelFrame ==
    [][ \A p \in 1..MaxPasses :
            (passes[p].status = "running" /\ passes'[p].ppc # passes[p].ppc) =>
                PictureChannelFrame(passes[p].info, passes'[p].info) ]_vars

\* C17 witness: the picture channel recorded an unflagged picture under the
\* captured position in a pass whose tag another channel had claimed
C17_Witness ==
    \E p \in Displayed :
        /\ Len(passes[p].info.pictures) > 0
        /\ ~passes[p].info.pictures[1].isSelected
        /\ passes[p].info.detectionMethod = "lastModified"
        /\ passes[p].tags = <<"lastModified">>

\* the report holds the details of shape s, in the picture section or in the
\* shape section
ShownInReport(text, s) ==
    \E i \in 1..Len(text) :
        /\ text[i].line \in {"picture", "shape"}
        /\ text[i].shape.id = s.id

\* C18: when strategy 3 reports several shapes as selected, all the flagged
\* shapes are kept in selectionInfo.shapes, and the report of the pass shows
\* the details of every one of them, in the picture section or in the shape
\* section.
C18_AllSelectedShapesShown ==
    \A p \in Displayed :
        LET info == passes[p].info
        IN  (passes[p].wrote = <<3>> /\ Cardinality(FlaggedShapes) > 1) =>
                /\ Range(info.shapes) = FlaggedShapes
                /\ Len(info.shapes) = Cardinality(FlaggedShapes)
                /\ \A i \in 1..Len(info.shapes) : ShownInReport(display, info.shapes[i])

\* C18 witness: a flagged picture and a flagged shape of another kind, the
\* first shown in the picture section and the second in the shape section
C18_Witness ==
    \E p \in Displayed :
        /\ passes[p].wrote = <<3>>
        /\ Len(passes[p].info.shapes) = 2
        /\ Len(passes[p].info.pictures) = 1
        /\ \E i, j \in 1..Len(display) :
              /\ display[i].line = "picture"
              /\ display[j].line = "shape"
              /\ display[i].shape.id # display[j].shape.id

\* C15 (as stated): a capture records the coordinates the pointer was last
\* observed at, so strategy 5 tests containment of the point the pointer was
\* at when the position was captured.
C15_CaptureRecordsPointer ==
    hasMousePositionData =>
        /\ lastClickedPosition = capturedAt
        /\ \A p \in Displayed :
              passes[p].wrote = <<5>> =>
                  \A i \in 1..Len(passes[p].info.shapes) :
                      ContainsPoint(capturedAt, passes[p].info.shapes[i])

\* C19 (as stated): the free-text channel records a text only if it differs
\* from the text seen before: no callback of the channel records the text
\* lastSelectedText already holds.
C19_SameTextNotRecordedAgain ==
    [][ \A p \in 1..MaxPasses :
            ( /\ passes[p].status = "running"
              /\ passes[p].tpc = "wait"
              /\ passes'[p].tpc = "done"
              /\ passes'[p].info.text # Null ) =>
                passes'[p].info.text # lastSelectedText ]_vars

\* the text holds t as a substring
IsSubstring(t, text) ==
    \E i, j \in 0..Len(text) : i <= j /\ SubSeq(text, i + 1, j) = t

\* the positions in slide order of the shapes whose text holds the selected text
Containing == { k \in 1..Len(search.shapes) : IsSubstring(search.selectedText, search.shapes[k].text) }

\* the positions in slide order of the shapes carrying the selected flag
Flagged == { k \in 1..Len(search.shapes) : search.shapes[k].isSelected }

First(S) == CHOOSE k \in S : \A m \in S : k <= m

\* the position of the shape the scan reported
Reported == search.i + 1

\* C20 (as stated): the scan reports the first shape in slide order whose
\* text holds the selected text, whatever the other attributes of the
\* shapes; when no text holds it, no shape is reported as holding it.
C20_FirstContainingShapeReported ==
    (search.status = "done") =>
        IF Containing # {}
        THEN search.found = "text" /\ Reported = First(Containing)
        ELSE search.found # "text"

\* C20 (amended): the scan stops at the first shape in slide order whose
\* text holds the selected text or which carries the selected flag, and
\* reports that shape: as the shape holding the text when its text holds it,
\* as the selected shape otherwise.  A shape reported as holding the text is
\* the first one whose text holds it, whatever the positions and zIndex of
\* the shapes; when no text holds it, no shape is reported as holding it.
C20_FirstContainingOrFlaggedReported ==
    (search.status = "done") =>
        /\ (Containing \cup Flagged = {}) <=> search.found = "none"
        /\ search.found # "none" =>
              /\ Reported = First(Containing \cup Flagged)
              /\ search.found = (IF Reported \in Containing THEN "text" ELSE "selected")
        /\ search.found = "text" => Reported = First(Containing)

\* C20 witness: two shapes hold the selected text inside a longer text, the
\* first of them lower in the stacking order, and the first was reported
C20_Witness ==
    /\ search.status = "done"
    /\ search.found = "text"
    /\ Containing = {1, 2}
    /\ Flagged = {}
    /\ Reported = 1
    /\ Len(search.shapes[1].text) > Len(search.selectedText)
    /\ search.shapes[1].zIndex < search.shapes[2].zIndex

\* the three channels of the pass have completed
ChannelsDone(pass) == pass.tpc = "done" /\ pass.ppc = "done" /\ pass.spc = "done"

\* the channels of the pass whose position differs between two states
Advanced(before, after) ==
    { c \in {"text", "pictures", "shapes"} :
        \/ c = "text" /\ after.tpc # before.tpc
        \/ c = "pictures" /\ after.ppc # before.ppc
        \/ c = "shapes" /\ after.spc # before.spc }

\* C21: in every step, a pass becomes displayed only from running, only with
\* its three channels completed, and the formatter then writes the report of
\* its SelectionInfo; a displayed pass does nothing more, so the formatter
\* runs once; a pass that goes on running has a channel left to complete;
\* and a step answers one round-trip of one channel, the shape cascade being
\* suspended on a single call at a time.
C21_FormatterOnceAfterAllChannels ==
    [][ \A p \in 1..MaxPasses :
            /\ (passes'[p].status = "displayed" /\ passes[p].status # "displayed") =>
                   /\ passes[p].status = "running"
                   /\ ChannelsDone(passes'[p])
                   /\ display' = displaySelectionInfo(passes'[p].info)
            /\ passes[p].status = "displayed" => passes'[p] = passes[p]
            /\ passes'[p].status = "running" => ~ChannelsDone(passes'[p])
            /\ (passes[p].status = "running") =>
                   /\ Cardinality(Advanced(passes[p], passes'[p])) <= 1
                   /\ passes'[p].spc \in {"slides", "a1sel", "a1load", "a2view", "a2sel", "a2load",
                                          "a3shapes", "a3props", "a4mod", "a4load", "done"} ]_vars

\* C21 witness: a displayed pass in which the three channels all had
\* something to do: a text was recorded, the pictures were listed and the
\* cascade went through every strategy
C21_Witness ==
    \E p \in Displayed :
        /\ ChannelsDone(passes[p])
        /\ passes[p].attempted = <<1, 2, 3, 4, 6>>
        /\ passes[p].info.text # Null
        /\ Len(passes[p].info.allPictures) > 0
        /\ display = displaySelectionInfo(passes[p].info)

HoldsSelection(info) ==
    \/ info.text \notin {Null, ""}
    \/ info.shapes # <<>>
    \/ info.pictures # <<>>

\* C28: when the formatter has run, the tag of the pass is set exactly when
\* its SelectionInfo holds a selection; the report lists all the elements
\* only with the tag unset, and shows a 'Detection method' line whenever it
\* shows a selection.
C28_TagIffSelection ==
    \A p \in Displayed :
        LET info == passes[p].info
        IN  /\ (info.detectionMethod # Null) <=> HoldsSelection(info)
            /\ HasLine(display, "All elements on current slide") => info.detectionMethod = Null
            /\ HasLine(display, "=== CURRENT SELECTION INFO ===") <=> HoldsSelection(info)
            /\ HoldsSelection(info) => HasLine(display, "Detection method")

\* C28 witness: a report that shows a shape found by the last-modified guess
\* and its 'Detection method' line
C28_Witness ==
    \E p \in Displayed :
        /\ passes[p].wrote = <<4>>
        /\ passes[p].info.text = Null
        /\ passes[p].info.pictures = <<>>
        /\ \E i \in 1..Len(display) :
              /\ display[i].line = "Detection method"
              /\ display[i].method = "lastModified"

RECURSIVE GroupSizes(_)
\* the sum of the sizes the report gives in its "== <type> Elements (n) ==" lines
GroupSizes(text) ==
    IF text = <<>> THEN 0
    ELSE (IF Head(text).line = "== Elements ==" THEN Head(text).count ELSE 0)
         + GroupSizes(Tail(text))

\* C29 (as stated): in the report of a pass whose round-trips all succeeded,
\* the count of the headline 'All elements on current slide (N total)' is
\* the number of shapes of the slide and the sum of the sizes of the groups
\* listed under it.
C29_HeadlineCountsShapes ==
    \A p \in Displayed :
        passes[p].failed = {} =>
            \A i \in 1..Len(display) :
                display[i].line = "All elements on current slide" =>
                    /\ display[i].total = Len(host.shapes)
                    /\ display[i].total = GroupSizes(display)

\* the picture of the example: id p1, name Logo, at (10, 20), 100 x 50,
\* z-index 2, alternative text 'A logo'
IsLogo(s) ==
    /\ s.type = "Picture" /\ s.id = "p1" /\ s.name = "Logo"
    /\ s.left = 10 /\ s.top = 20 /\ s.width = 100 /\ s.height = 50
    /\ s.zIndex = 2 /\ s.altTextDescription = "A logo"

\* C25: the report of a SelectionInfo that holds the picture of the example,
\* in pictures or in shapes, contains its name "Logo" with "(ID: p1)", its
\* position "(10, 20)", its size "100 x 50" and its alternative text "A logo".
C25_PictureReported ==
    \A p \in Displayed :
        LET info == passes[p].info
        IN  (\E s \in Range(info.pictures) \cup Range(info.shapes) : IsLogo(s)) =>
                /\ \E i \in 1..Len(display) :
                       /\ display[i].line = "header"
                       /\ display[i].name = "Logo" /\ display[i].id = "p1"
                /\ \E i \in 1..Len(display) :
                       /\ display[i].line = "Position"
                       /\ display[i].left = 10 /\ display[i].top = 20
                /\ \E i \in 1..Len(display) :
                       /\ display[i].line = "Size"
                       /\ display[i].width = 100 /\ display[i].height = 50
                /\ \E i \in 1..Len(display) :
                       display[i].line = "Alt Text" /\ display[i].text = "A logo"

\* C25 witness: the picture of the example is held in shapes only, beside
\* another picture held in pictures, and the report has been written
C25_Witness ==
    /\ passes[1].status = "displayed"
    /\ \E s \in Range(passes[1].info.shapes) : IsLogo(s)
    /\ passes[1].info.pictures # <<>>
    /\ ~ \E s \in Range(passes[1].info.pictures) : s.id = "p1"
    /\ \E i \in 1..Len(display) : display[i].line = "Alt Text"

\* C25 witness, second case: the picture is held in pictures and in shapes
C25_InBoth ==
    /\ passes[1].status = "displayed"
    /\ \E s \in Range(passes[1].info.shapes) : IsLogo(s)
    /\ \E s \in Range(passes[1].info.pictures) : IsLogo(s)

\* the ids of the shapes of the slide, of the kinds given, whose box holds
\* the captured point, borders included
IdsAtCapturedPoint(kinds) ==
    { host.shapes[i].id : i \in { j \in 1..Len(host.shapes) :
          /\ host.shapes[j].type \in kinds
          /\ host.shapes[j].left <= lastClickedPosition.x
          /\ lastClickedPosition.x <= host.shapes[j].left + host.shapes[j].width
          /\ host.shapes[j].top <= lastClickedPosition.y
          /\ lastClickedPosition.y <= host.shapes[j].top + host.shapes[j].height } }

IdsOf(shapes) == { shapes[i].id : i \in 1..Len(shapes) }

SameAnswers ==
    /\ \A p \in 1..2 :
          /\ passes[p].status = "displayed"
          /\ passes[p].failed = {}
          /\ passes[p].info.pictures # <<>> \/ passes[p].info.allPictures # <<>>
          /\ host.text # "" => passes[p].info.text = host.text
    /\ passes[1].attempted = passes[2].attempted
    /\ passes[1].wrote = passes[2].wrote

\* the tag each strategy of the shape cascade assigns
TagOfStrategy(k) ==
    CASE k = 1 -> "direct-selection"
      [] k = 2 -> "active-view"
      [] k = 3 -> "isSelected"
      [] k = 4 -> "lastModified"
      [] k = 5 -> "position"

PictureTags == {"picture-isSelected", "picture-position"}

\* C27 (as stated): two passes over the same host and cursor state that got
\* the same answers end with the same SelectionInfo: method tag, shapes,
\* pictures and text, whatever the order in which their channels completed.
C27_SameResultInEveryOrder ==
    SameAnswers =>
        /\ passes[1].info.detectionMethod = passes[2].info.detectionMethod
        /\ passes[1].info.shapes = passes[2].info.shapes
        /\ passes[1].info.pictures = passes[2].info.pictures
        /\ passes[1].info.text = passes[2].info.text

\* C27 (amended): the shapes, the pictures and the text are the same in
\* every order.  The tag is "text" whenever a text was recorded; without a
\* text it is the tag of whichever of the picture channel and the shape
\* cascade found something first, so it is the same in every order only
\* when at most one of the two found something.
C27_SameResultButTag ==
    SameAnswers =>
        /\ passes[1].info.shapes = passes[2].info.shapes
        /\ passes[1].info.pictures = passes[2].info.pictures
        /\ passes[1].info.text = passes[2].info.text
        /\ passes[1].info.allShapes = passes[2].info.allShapes
        /\ passes[1].info.allPictures = passes[2].info.allPictures
        /\ \A p \in 1..2 :
              LET info == passes[p].info
              IN  /\ info.text # Null => info.detectionMethod = "text"
                  /\ (info.text = Null /\ info.pictures # <<>> /\ info.shapes = <<>>) =>
                         info.detectionMethod \in PictureTags
                  /\ (info.text = Null /\ info.pictures = <<>> /\ info.shapes # <<>>) =>
                         info.detectionMethod = TagOfStrategy(passes[p].wrote[1])
                  /\ (info.text = Null /\ info.pictures # <<>> /\ info.shapes # <<>>) =>
                         info.detectionMethod \in
                             PictureTags \cup {TagOfStrategy(passes[p].wrote[1])}
                  /\ (info.text = Null /\ info.pictures = <<>> /\ info.shapes = <<>>) =>
                         info.detectionMethod = Null
        /\ (passes[1].info.text # Null
            \/ passes[1].info.pictures = <<>>
            \/ passes[1].info.shapes = <<>>) =>
               passes[1].info.detectionMethod = passes[2].info.detectionMethod

\* C27 witness: both passes hold the picture in pictures and in shapes and no
\* text; one is tagged by the picture channel, the other by the shape cascade
C27_Witness ==
    /\ SameAnswers
    /\ passes[1].info.text = Null
    /\ passes[1].info.pictures # <<>>
    /\ passes[1].info.shapes # <<>>
    /\ passes[1].info.detectionMethod = "picture-isSelected"
    /\ passes[2].info.detectionMethod \notin PictureTags

\* a line of the display is about the shape with this id
ShowsShape(text, kind, id) ==
    \E i \in 1..Len(text) : text[i].line = kind /\ text[i].shape.id = id

\* the pass of the older variant ended on a slide with at least one shape,
\* none of them flagged, after approaches 1 and 2 were tried and wrote nothing
NothingFoundBefore3 ==
    /\ older.status = "done"
    /\ Len(host.shapes) > 0
    /\ \A i \in 1..Len(host.shapes) : ~host.shapes[i].isSelected
    /\ {1, 2} \subseteq Range(older.attempted)

\* the shape with the maximum zIndex of the slide
MaxZIndexId ==
    (CHOOSE s \in Range(host.shapes) : \A u \in Range(host.shapes) : u.zIndex <= s.zIndex).id

IsBestGuess(text) == text[1].line = "Best guess of selected element (top-most element):"

IsListing(text) == text[1].line = "Could not identify which element is selected."

\* C30 (as stated): on a slide with at least one shape where approaches 1
\* and 2 yield nothing and no shape is flagged, the pass reports the shape
\* with the maximum zIndex as best guess, or, only when the load of that
\* shape failed, the listing 'Could not identify which element is selected'.
C30_BestGuessOrListing ==
    NothingFoundBefore3 =>
        /\ IsListing(display) => 4 \in older.failed
        /\ ~IsListing(display) =>
               IsBestGuess(display) /\ ShowsShape(display, "shape", MaxZIndexId)

\* C30 (amended): under the same conditions the pass reports the shape with
\* the maximum zIndex as best guess whenever the round-trips of approach 3
\* and the load of that shape succeed; it shows the listing of all shapes
\* exactly when the load of that shape fails; and when a round-trip of
\* approach 3 fails it shows neither, but 'Error detecting shapes'.
C30_BestGuessUnlessApproach3Fails ==
    NothingFoundBefore3 =>
        /\ (3 \notin older.failed /\ 4 \notin older.failed) =>
               /\ IsBestGuess(display)
               /\ ShowsShape(display, "shape", MaxZIndexId)
               /\ Len(display) = 3
        /\ IsListing(display) <=> 4 \in older.failed
        /\ IsListing(display) =>
               /\ display[2].total = Len(host.shapes)
               /\ \A i \in 1..Len(host.shapes) :
                      ShowsShape(display, "element", host.shapes[i].id)
        /\ 3 \in older.failed <=> display = ErrorDetectingShapes

\* C30 witness: two shapes, none flagged, every round-trip succeeded: the
\* best guess is the second, top-most shape
C30_Witness ==
    /\ NothingFoundBefore3
    /\ Len(host.shapes) = 2
    /\ older.failed = {}
    /\ IsBestGuess(display)
    /\ display[2].shape.id = 2

\* C30 witness, second case: the load of the top-most shape failed and the
\* listing is displayed
C30_ListingReached ==
    /\ NothingFoundBefore3
    /\ older.failed = {4}
    /\ IsListing(display)

\* C22: a change event arriving while a pass is in flight does not cancel
\* it: the event's handlers leave the passes and the display as they are,
\* a pass in flight stays in flight, keeping the channels it has resolved,
\* until it writes its own result, also when a newer pass has been started;
\* and the display is written only by the start of a pass and by the pass
\* that completes, so it holds the output of the pass that wrote last.
C22_NoCancelLastWriteWins ==
    [][ /\ evCount' # evCount => (passes' = passes /\ display' = display)
        /\ \A p \in 1..MaxPasses :
              passes[p].status = "running" =>
                  /\ passes'[p].status \in {"running", "displayed"}
                  /\ passes[p].tpc = "done" => passes'[p].tpc = "done"
                  /\ passes[p].ppc = "done" => passes'[p].ppc = "done"
                  /\ passes[p].spc = "done" => passes'[p].spc = "done"
                  /\ passes'[p].status = "displayed" =>
                         display' = displaySelectionInfo(passes'[p].info)
        /\ display' # display =>
              \/ /\ display' = Detecting
                 /\ \E p \in 1..MaxPasses :
                        passes[p].status # "running" /\ passes'[p] = NewPass
              \/ \E p \in 1..MaxPasses :
                     /\ passes[p].status = "running"
                     /\ passes'[p].status = "displayed"
                     /\ display' = displaySelectionInfo(passes'[p].info)
      ]_vars

\* C22 witness: the pass started by the button before the text was selected
\* (slot 1) completed after the pass the debounce timer started (slot 2):
\* the display holds the older pass's report, without the text, and not the
\* newer pass's report
C22_Witness ==
    /\ evCount = 1
    /\ fireCount = 1
    /\ passes[1].status = "displayed"
    /\ passes[2].status = "displayed"
    /\ passes[1].info.text = Null
    /\ passes[2].info.text = "hello"
    /\ display = displaySelectionInfo(passes[1].info)
    /\ display # displaySelectionInfo(passes[2].info)

\* C24 (as stated): the channels of a pass observe the same flags.  When the
\* pass is displayed, every picture the picture channel loaded carries the
\* isSelected flag that the shape cascade loaded for the same shape in
\* strategy 3, also when the selection changed while the pass was in flight.
C24_SameFlagsInEveryChannel ==
    \A p \in Displayed :
        LET pass == passes[p]
            seen == pass.info.pictures \o pass.info.allPictures
        IN  \A i \in 1..Len(seen), j \in 1..Len(pass.shapes) :
                seen[i].id = pass.shapes[j].id =>
                    seen[i].isSelected = pass.shapes[j].isSelected

\* s is the beginning of t
IsPrefix(s, t) == Len(s) <= Len(t) /\ SubSeq(t, 1, Len(s)) = s

\* C31 (as stated): once the shape detection of the older variant has
\* written its result, the text callback and the lookup it starts never
\* replace it: whatever they write after it begins with the text the
\* display held, so the final text is the same whichever finishes last.
\* Stated for the passes in which no round-trip failed.
C31_DetectionResultKept ==
    [][ (/\ older.status = "done"
         /\ older'.status = "done"
         /\ older'.failed = {}
         /\ ~older'.lfailed) => IsPrefix(display, display') ]_vars

====
